---------------------------- MODULE Spec2Model ----------------------------
(***************************************************************************)
(* Travel-expense ledger: the two storage services (localStorage and      *)
(* IndexedDB), the expense form, the trip wizard and the trip dashboard.  *)
(*                                                                         *)
(* Numbers are fixed point.  Money entered in a form is an integer number *)
(* of cents (the inputs have step 0.01); an exchange rate is an integer   *)
(* number of tenths, so RateOne stands for the JavaScript number 1; a     *)
(* product amount * rate (amountBase, totalSpent, balance) is an integer  *)
(* number of thousandths (cents * tenths).  NaN and Null are the two      *)
(* non-numeric values a numeric field can hold.                            *)
(***************************************************************************)
EXTENDS Integers, Sequences, FiniteSets, TLC

\* ------------------------------------------------------------------ bounds

\* Trip and expense identifiers the storage contract is driven with.
MaxStoreTrips == 2

MaxStoreExpenses == 2

StoreTripIds == 1..MaxStoreTrips

StoreExpenseIds == 1..MaxStoreExpenses

\* Trip and expense identifiers generateUUID hands out to the application.
MaxTrips == 1

MaxExpenses == 1

\* Lookups (currency suggestions, rate estimates) a form awaits at a time.
MaxInFlight == 2

TripIds == 1..MaxTrips

ExpenseIds == 1..MaxExpenses

\* ------------------------------------------------------------------ values

\* The JavaScript number 1 as an exchange rate (tenths).
RateOne == 10

\* parseFloat('') of a cleared number input.
NaN == 0 - 999

\* JSON null; it also stands for undefined, which is falsy and absent from
\* the written JSON alike.
Null == 0 - 998

\* JavaScript truthiness of a numeric field: 0, NaN, null and undefined are falsy.
Falsy(x) == x = 0 \/ x = NaN \/ x = Null

\* The JavaScript expression  x || d.
OrDefault(x, d) == IF Falsy(x) THEN d ELSE x

\* JavaScript multiplication of two numeric fields: NaN is absorbing and
\* null converts to 0.
Mul(a, b) ==
  IF a = NaN \/ b = NaN THEN NaN
  ELSE (IF a = Null THEN 0 ELSE a) * (IF b = Null THEN 0 ELSE b)

\* Amounts (cents) the amount input of the expense form can hold on submit.
AmountValues == {0, 1}

\* Rates (tenths) a rate input can hold: cleared, 0, 0.3 and 1.
RateValues == {NaN, 0, 3, RateOne}

\* Advance amounts (cents) the trip wizard can store.
AdvanceValues == {0, 1}

\* Two values of the Currency enum.
Currencies == {"USD", "EUR"}

\* Values of a date input; Today is new Date().toISOString().split('T')[0].
Dates == {"2024-01-01", "2024-01-02"}

Today == "2024-01-01"

\* Rates (tenths) getEstimatedExchangeRate resolves to: a rate of the model
\* or of the static table (0.5), and the 1.0 fallback.
LookupRates == {5, RateOne}

\* Rates (tenths) typed into a rate input while lookups are modelled.
TypedRates == {3}

\* --------------------------------------------------------- serialisation

\* JSON.stringify followed by JSON.parse of one numeric field: NaN has no
\* JSON form and is written as null.
JsonNumber(x) == IF x = NaN THEN Null ELSE x

\* JSON.parse(JSON.stringify(e)) of an Expense.
JsonExpense(e) ==
  [e EXCEPT !.amountOriginal = JsonNumber(@),
            !.exchangeRate = JsonNumber(@),
            !.amountBase = JsonNumber(@)]

\* JSON.parse(JSON.stringify(t)) of a Trip.
JsonTrip(t) ==
  [t EXCEPT !.advanceAmount = JsonNumber(@),
            !.initialExchangeRate = JsonNumber(@)]

\* JSON round trip of a whole array, as setItem(JSON.stringify(all)) writes it.
JsonExpenses(all) == [i \in 1..Len(all) |-> JsonExpense(all[i])]

JsonTrips(all) == [i \in 1..Len(all) |-> JsonTrip(all[i])]

\* Array.prototype.findIndex on the id; 0 stands for JavaScript's -1.
FindIndex(all, id) ==
  IF \E i \in 1..Len(all) : all[i].id = id
  THEN CHOOSE i \in 1..Len(all) :
         all[i].id = id /\ \A j \in 1..(i - 1) : all[j].id # id
  ELSE 0

\* ------------------------------------------------ localStorage service

\* getTrips: the parsed array under TRIPS_KEY ([] when the key is absent).
ls_getTrips(trips) == trips

\* saveTrip: replace at the found index, else push; then write the array back.
ls_saveTrip(trips, trip) ==
  LET existingIndex == FindIndex(trips, trip.id)
  IN JsonTrips(IF existingIndex > 0
               THEN [trips EXCEPT ![existingIndex] = trip]
               ELSE Append(trips, trip))

\* What saveTrip and saveExpense return: nothing (undefined).
ls_saveTrip_result(trip) == Null

ls_saveExpense_result(expense) == Null

\* getExpenses without the filter: every stored expense is returned.
ls_getExpenses_all(allExpenses, tripId) == allExpenses

\* getExpenses: filter of the parsed array on tripId.
ls_getExpenses(allExpenses, tripId) ==
  SelectSeq(allExpenses, LAMBDA e : e.tripId = tripId)

\* saveExpense without the findIndex branch: every save pushes.
ls_saveExpense_push(allExpenses, expense) ==
  JsonExpenses(Append(allExpenses, expense))

\* saveExpense: replace at the found index, else push; then write the array back.
ls_saveExpense(allExpenses, expense) ==
  LET existingIndex == FindIndex(allExpenses, expense.id)
  IN JsonExpenses(IF existingIndex > 0
                  THEN [allExpenses EXCEPT ![existingIndex] = expense]
                  ELSE Append(allExpenses, expense))

\* deleteExpense that removes the key instead of writing the filtered array.
ls_deleteExpense_clear(allExpenses, expenseId) == <<>>

\* deleteExpense: filter out the id and write the array back (nothing is
\* written when the key is absent, which leaves the empty array).
ls_deleteExpense(allExpenses, expenseId) ==
  JsonExpenses(SelectSeq(allExpenses, LAMBDA e : e.id # expenseId))

\* --------------------------------------------------- IndexedDB service
\* An object store with keyPath "id" holds one structured clone per key and
\* is read in ascending key order; it is modelled as the key-ordered
\* sequence of its records.

\* IDBObjectStore.put: the record replaces the one of its key or is
\* inserted at the key's place.
idb_put(store, rec) ==
  SelectSeq(store, LAMBDA r : r.id < rec.id) \o <<rec>>
    \o SelectSeq(store, LAMBDA r : r.id > rec.id)

\* IDBObjectStore.delete.
idb_delete(store, key) == SelectSeq(store, LAMBDA r : r.id # key)

\* getTrips: store.getAll().
idb_getTrips(trips) == trips

\* saveTrip: store.put(trip).
idb_saveTrip(trips, trip) == idb_put(trips, trip)

\* getExpenses: index("tripId").getAll(tripId), in primary-key order.
idb_getExpenses(allExpenses, tripId) ==
  SelectSeq(allExpenses, LAMBDA e : e.tripId = tripId)

\* saveExpense: store.put(expense).
idb_saveExpense(allExpenses, expense) == idb_put(allExpenses, expense)

\* What saveTrip and saveExpense resolve to: the result of the put request,
\* which is the key of the record.
idb_saveTrip_result(trip) == trip.id

idb_saveExpense_result(expense) == expense.id

\* deleteExpense: store.delete(expenseId).
idb_deleteExpense(allExpenses, expenseId) == idb_delete(allExpenses, expenseId)


\* ------------------------------------------------------------------- state

VARIABLES
  lsTrips,          \* localStorage["voyage_trips"], parsed
  lsExpenses,       \* localStorage["voyage_expenses"], parsed
  idbTrips,         \* IndexedDB object store "trips", in key order
  idbExpenses,      \* IndexedDB object store "expenses", in key order
  last,             \* the last storage-service call, its argument and, for
                    \* deleteExpense, whether the expense was stored
  backend,          \* the module behind '../services/storageService'
  route,            \* 0: the trip list or the trip wizard; t: the dashboard of trip t
  trip,             \* TripDashboard state: the loaded trip
  expenses,         \* TripDashboard state: the loaded expenses
  showModal,        \* TripDashboard state: the expense form is mounted
  editingExpense,   \* TripDashboard state: the expense being edited
  showCloseConfirm, \* TripDashboard state: the close/reopen dialog is shown
  formData,         \* ExpenseForm state, while mounted
  wizard,           \* TripWizard state formData, while mounted
  exchangeRate,     \* TripWizard state
  isManualRate,     \* TripWizard state
  loadingRate,      \* the mounted form's loadingRate state
  currencyLookups,  \* suggestCurrencyForCountry calls the wizard awaits
  rateLookups,      \* getEstimatedExchangeRate calls the mounted form awaits
  manualEntry,      \* history: the last rate typed into the mounted form
  call,             \* a call of the AI service, inside retryOperation
  isScanning,       \* ExpenseForm state
  scan,             \* the handleFileChange call the expense form awaits
  alertShown,       \* the message of the last alert(), <<>> before the first
  failed,           \* history: the last rejected storage call and what its
                    \* caller did with the rejection
  latestLookup,     \* history: the currency and date of the expense form's
                    \* last updateRate call and what came of it
  pending,          \* the storage calls in flight, oldest first, each with
                    \* the handler that awaits it
  isSaving          \* TripWizard state

storeVars == <<lsTrips, lsExpenses, idbTrips, idbExpenses>>

dashVars ==
  <<backend, route, trip, expenses, showModal, editingExpense,
    showCloseConfirm, formData>>

wizardVars == <<wizard, exchangeRate, isManualRate, currencyLookups>>

lookupVars == <<loadingRate, rateLookups, manualEntry>>

scanVars == <<isScanning, scan>>

reportVars == <<alertShown, failed>>

asyncVars == <<pending, isSaving>>

serviceVars == <<call, scanVars, reportVars, latestLookup, asyncVars>>

vars == <<storeVars, last, dashVars, wizardVars, lookupVars, serviceVars>>

\* No trip, no expense, no form.
None == [id |-> 0]

\* The initial formData of TripWizard, with the generated id.
NewTripForm(id) ==
  [id |-> id, status |-> "active", baseCurrency |-> "USD",
   localCurrencySuggestion |-> "", startDate |-> "",
   initialExchangeRate |-> RateOne, advanceAmount |-> Null]

\* The record TripWizard.handleSubmit hands to saveTrip for the form data fd.
SubmittedTrip(fd) == [fd EXCEPT !.advanceAmount = OrDefault(@, 0)]

\* The initial formData of ExpenseForm for a new expense of trip t, with the
\* generated id.
NewExpenseForm(id, t) ==
  [id |-> id, tripId |-> t.id, date |-> Today,
   currencyOriginal |-> IF t.localCurrencySuggestion # ""
                        THEN t.localCurrencySuggestion ELSE "USD",
   amountOriginal |-> 0, exchangeRate |-> RateOne]

\* An edit form that takes the expense out of its trip.
EditExpenseForm_reassigned(e, t) ==
  [id |-> e.id, tripId |-> 0, date |-> e.date,
   currencyOriginal |-> e.currencyOriginal,
   amountOriginal |-> OrDefault(e.amountOriginal, 0),
   exchangeRate |-> OrDefault(e.exchangeRate, RateOne)]

\* The initial formData of ExpenseForm for the existing expense e of trip t.
EditExpenseForm(e, t) ==
  [id |-> e.id, tripId |-> t.id, date |-> e.date,
   currencyOriginal |-> e.currencyOriginal,
   amountOriginal |-> OrDefault(e.amountOriginal, 0),
   exchangeRate |-> OrDefault(e.exchangeRate, RateOne)]

\* The record ExpenseForm.handleSubmit hands to onSave for the form data fd:
\* amountBase is computed from the defaulted values, the record keeps the
\* raw ones.
SubmittedExpense(fd) ==
  [id |-> fd.id, tripId |-> fd.tripId, date |-> fd.date,
   currencyOriginal |-> fd.currencyOriginal,
   amountOriginal |-> fd.amountOriginal,
   exchangeRate |-> fd.exchangeRate,
   amountBase |-> Mul(OrDefault(fd.amountOriginal, 0),
                      OrDefault(fd.exchangeRate, RateOne))]

\* The manual entry of rate r made on date d with n lookups awaited: clean
\* tells that no lookup was in flight when the rate was typed.
ManualEntry(r, d, n) == <<[rate |-> r, date |-> d, clean |-> n = 0]>>

\* The expense form has called updateRate on no currency and date.
NoLookup == [state |-> "none", currency |-> "", date |-> "", rate |-> 0]

\* No call of the AI service, no scan, no alert, no rejected storage call,
\* no rate asked for and no storage call in flight.
ServicesIdle ==
  /\ call = [fn |-> "none"]
  /\ isScanning = FALSE
  /\ scan = [phase |-> "idle"]
  /\ alertShown = <<>>
  /\ failed = [op |-> "none"]
  /\ latestLookup = NoLookup
  /\ pending = <<>>
  /\ isSaving = FALSE

\* No form of the two is mounted with a lookup or a typed rate.
FormsIdle ==
  /\ ServicesIdle
  /\ wizard = None
  /\ exchangeRate = RateOne
  /\ isManualRate = FALSE
  /\ loadingRate = FALSE
  /\ currencyLookups = 0
  /\ rateLookups = 0
  /\ manualEntry = <<>>

\* ------------------------------------------- the storage contract, driven
\* Both services receive the same calls, with records the forms produce.

\* Trips handed to saveTrip: a wizard's trip with the rate cleared.
StoreTripInputs ==
  {SubmittedTrip([NewTripForm(id) EXCEPT !.advanceAmount = 1,
                                         !.initialExchangeRate = NaN,
                                         !.startDate = Today]) :
     id \in StoreTripIds}

\* Expenses handed to saveExpense: a form's expense of 0.01 of one of two
\* trips, with the rate typed (0.3) or cleared.
StoreExpenseInputs ==
  {SubmittedExpense([id |-> id, tripId |-> t, date |-> Today,
                     currencyOriginal |-> "EUR", amountOriginal |-> 1,
                     exchangeRate |-> r]) :
     id \in StoreExpenseIds, t \in {1, 2}, r \in {NaN, 3}}

\* The application is not running while the contract is driven.
DashIdle ==
  /\ backend = "none"
  /\ route = 0
  /\ trip = None
  /\ expenses = <<>>
  /\ showModal = FALSE
  /\ editingExpense = None
  /\ showCloseConfirm = FALSE
  /\ formData = None
  /\ FormsIdle

InitStore ==
  /\ lsTrips = <<>>
  /\ lsExpenses = <<>>
  /\ idbTrips = <<>>
  /\ idbExpenses = <<>>
  /\ last = [op |-> "none"]
  /\ DashIdle

Call_saveTrip(t) ==
  /\ lsTrips' = ls_saveTrip(lsTrips, t)
  /\ idbTrips' = idb_saveTrip(idbTrips, t)
  /\ last' = [op |-> "saveTrip", trip |-> t]
  /\ UNCHANGED <<lsExpenses, idbExpenses, dashVars, wizardVars, lookupVars>>
  /\ UNCHANGED serviceVars

\* An expense keeps the trip it was created for (the form sets tripId from
\* the dashboard's trip and edits only that dashboard's expenses).
Call_saveExpense(e) ==
  /\ \A i \in 1..Len(idbExpenses) :
       idbExpenses[i].id = e.id => idbExpenses[i].tripId = e.tripId
  /\ lsExpenses' = ls_saveExpense(lsExpenses, e)
  /\ idbExpenses' = idb_saveExpense(idbExpenses, e)
  /\ last' = [op |-> "saveExpense", expense |-> e]
  /\ UNCHANGED <<lsTrips, idbTrips, dashVars, wizardVars, lookupVars>>
  /\ UNCHANGED serviceVars

Call_deleteExpense(id) ==
  /\ lsExpenses' = ls_deleteExpense(lsExpenses, id)
  /\ idbExpenses' = idb_deleteExpense(idbExpenses, id)
  /\ last' = [op |-> "deleteExpense", expenseId |-> id,
              stored |-> \E i \in 1..Len(idbExpenses) : idbExpenses[i].id = id]
  /\ UNCHANGED <<lsTrips, idbTrips, dashVars, wizardVars, lookupVars>>
  /\ UNCHANGED serviceVars

NextStore ==
  \/ \E t \in StoreTripInputs : Call_saveTrip(t)
  \/ \E e \in StoreExpenseInputs : Call_saveExpense(e)
  \/ \E id \in StoreExpenseIds : Call_deleteExpense(id)

SpecStore == InitStore /\ [][NextStore]_vars


\* ------------------------------------------------------ trip dashboard
\* The dashboard's handlers are taken as one step each: saveExpense, the
\* refresh that follows it and the state updates after it.

\* Stored trips and expenses as the linked storage service returns them.
getTrips == IF backend = "localStorage" THEN ls_getTrips(lsTrips)
            ELSE idb_getTrips(idbTrips)

getExpenses(tripId) ==
  IF backend = "localStorage" THEN ls_getExpenses(lsExpenses, tripId)
  ELSE idb_getExpenses(idbExpenses, tripId)

\* The stored expenses of all trips, after the step.
allExpensesAfter == IF backend = "localStorage" THEN lsExpenses' ELSE idbExpenses'

\* A saveTrip that stores nothing.
saveTrip_dropped(t) == UNCHANGED <<lsTrips, idbTrips>>

saveTrip(t) ==
  IF backend = "localStorage"
  THEN lsTrips' = ls_saveTrip(lsTrips, t) /\ UNCHANGED idbTrips
  ELSE idbTrips' = idb_saveTrip(idbTrips, t) /\ UNCHANGED lsTrips

saveExpense(e) ==
  IF backend = "localStorage"
  THEN lsExpenses' = ls_saveExpense(lsExpenses, e) /\ UNCHANGED idbExpenses
  ELSE idbExpenses' = idb_saveExpense(idbExpenses, e) /\ UNCHANGED lsExpenses

deleteExpense(id) ==
  IF backend = "localStorage"
  THEN lsExpenses' = ls_deleteExpense(lsExpenses, id) /\ UNCHANGED idbExpenses
  ELSE idbExpenses' = idb_deleteExpense(idbExpenses, id) /\ UNCHANGED lsExpenses

\* refreshExpenses, run after a write of the same handler: getExpenses(id)
\* then setExpenses.
refreshExpenses ==
  expenses' = SelectSeq(allExpensesAfter, LAMBDA e : e.tripId = route)

\* useMemo: expenses.reduce((acc, curr) => acc + curr.amountBase, 0).
RECURSIVE Reduce(_)
Reduce(list) ==
  IF list = <<>> THEN 0 ELSE Reduce(SubSeq(list, 1, Len(list) - 1))
                               + list[Len(list)].amountBase

totalSpent == Reduce(expenses)

\* (trip?.advanceAmount || 0) - totalSpent, in thousandths.
balance == OrDefault(trip.advanceAmount, 0) * RateOne - totalSpent

\* balance * (trip?.initialExchangeRate || 1).
balanceLocal == Mul(balance, OrDefault(trip.initialExchangeRate, RateOne))

\* The label of the close-trip dialog.
CloseConfirmLabel ==
  IF balance = 0 THEN "balanced"
  ELSE IF balance > 0 THEN "toReturn" ELSE "toReimburse"

\* The label of the print header's settlement cell.
PrintHeaderLabel == IF balance >= 0 THEN "toReturn" ELSE "toReimburse"

\* The label of the print table's settlement row.
PrintTableLabel == IF balance >= 0 THEN "toReturn" ELSE "toReimburse"

InitApp ==
  /\ lsTrips = <<>>
  /\ lsExpenses = <<>>
  /\ idbTrips = <<>>
  /\ idbExpenses = <<>>
  /\ last = [op |-> "none"]
  /\ backend \in {"localStorage", "indexedDB"}
  /\ route = 0
  /\ trip = None
  /\ expenses = <<>>
  /\ showModal = FALSE
  /\ editingExpense = None
  /\ showCloseConfirm = FALSE
  /\ formData = None
  /\ FormsIdle

\* The wizard unmounts: what its lookups resolve to is set on no form.
WizardUnmounts ==
  /\ wizard' = None
  /\ exchangeRate' = RateOne
  /\ isManualRate' = FALSE
  /\ loadingRate' = FALSE
  /\ currencyLookups' = 0
  /\ rateLookups' = 0
  /\ manualEntry' = <<>>

\* TripWizard.handleSubmit with the form data fd (the start-date input is
\* required, so it is not empty): the new trip is saved and the wizard
\* navigates to its dashboard, whose loadData sets trip and expenses.
TripWizard_handleSubmit(fd) ==
  /\ route = 0
  /\ fd.startDate # ""
  /\ fd.id \notin {getTrips[i].id : i \in 1..Len(getTrips)}
  /\ saveTrip(SubmittedTrip(fd))
  /\ route' = fd.id
  /\ trip' = (IF backend = "localStorage" THEN JsonTrip(SubmittedTrip(fd))
              ELSE SubmittedTrip(fd))
  /\ expenses' = getExpenses(fd.id)
  /\ WizardUnmounts
  /\ UNCHANGED <<lsExpenses, idbExpenses, last, backend, showModal,
                 editingExpense, showCloseConfirm, formData>>
  /\ UNCHANGED serviceVars

\* TripDashboard mounted from the trip list: loadData.
loadData(i) ==
  /\ route = 0
  /\ wizard = None
  /\ i \in 1..Len(getTrips)
  /\ route' = getTrips[i].id
  /\ trip' = getTrips[i]
  /\ expenses' = getExpenses(getTrips[i].id)
  /\ UNCHANGED <<storeVars, last, backend, showModal, editingExpense,
                 showCloseConfirm, formData, wizardVars, lookupVars>>
  /\ UNCHANGED serviceVars

\* The expense form unmounts: what its lookups resolve to is set on no form.
FormUnmounts ==
  /\ showModal' = FALSE
  /\ formData' = None
  /\ loadingRate' = FALSE
  /\ rateLookups' = 0
  /\ manualEntry' = <<>>
  /\ isScanning' = FALSE
  /\ scan' = [phase |-> "idle"]
  /\ latestLookup' = NoLookup

\* The back button: the dashboard unmounts.
NavigateBack ==
  /\ route # 0
  /\ route' = 0
  /\ trip' = None
  /\ expenses' = <<>>
  /\ editingExpense' = None
  /\ showCloseConfirm' = FALSE
  /\ FormUnmounts
  /\ UNCHANGED <<storeVars, last, backend, wizardVars>>
  /\ UNCHANGED <<call, reportVars, asyncVars>>

\* No dialog covers the dashboard.
Uncovered == route # 0 /\ ~showModal /\ ~showCloseConfirm

\* The floating add button, rendered while the trip is active: the form
\* mounts with a generated id.
ClickAdd(id) ==
  /\ Uncovered
  /\ trip.status = "active"
  /\ id \notin {lsExpenses[i].id : i \in 1..Len(lsExpenses)}
           \cup {idbExpenses[i].id : i \in 1..Len(idbExpenses)}
  /\ editingExpense' = None
  /\ showModal' = TRUE
  /\ formData' = NewExpenseForm(id, trip)
  /\ UNCHANGED <<storeVars, last, backend, route, trip, expenses,
                 showCloseConfirm, wizardVars, lookupVars>>
  /\ UNCHANGED serviceVars

\* An expense row whose click acts whatever the trip's status.
ClickExpense_anyStatus(i) ==
  /\ Uncovered
  /\ i \in 1..Len(expenses)
  /\ editingExpense' = expenses[i]
  /\ showModal' = TRUE
  /\ formData' = EditExpenseForm(expenses[i], trip)
  /\ UNCHANGED <<storeVars, last, backend, route, trip, expenses,
                 showCloseConfirm, wizardVars, lookupVars>>
  /\ UNCHANGED serviceVars

\* A click on an expense row, which acts while the trip is active: the
\* form mounts on that expense.
ClickExpense(i) ==
  /\ Uncovered
  /\ i \in 1..Len(expenses)
  /\ trip.status = "active"
  /\ editingExpense' = expenses[i]
  /\ showModal' = TRUE
  /\ formData' = EditExpenseForm(expenses[i], trip)
  /\ UNCHANGED <<storeVars, last, backend, route, trip, expenses,
                 showCloseConfirm, wizardVars, lookupVars>>
  /\ UNCHANGED serviceVars

\* The form's X button.
onClose ==
  /\ showModal
  /\ FormUnmounts
  /\ UNCHANGED <<storeVars, last, backend, route, trip, expenses,
                 editingExpense, showCloseConfirm, wizardVars>>
  /\ UNCHANGED <<call, reportVars, asyncVars>>

\* ExpenseForm.handleSubmit with the amount and rate fields holding
\* amountOriginal and exchangeRate (the amount input is required, so it is
\* not empty), then the dashboard's handleSaveExpense.
handleSubmit(amountOriginal, exchangeRate_) ==
  /\ showModal
  /\ amountOriginal # NaN
  /\ saveExpense(SubmittedExpense(
       [formData EXCEPT !.amountOriginal = amountOriginal,
                        !.exchangeRate = exchangeRate_]))
  /\ refreshExpenses
  /\ editingExpense' = None
  /\ FormUnmounts
  /\ UNCHANGED <<lsTrips, idbTrips, last, backend, route, trip,
                 showCloseConfirm, wizardVars>>
  /\ UNCHANGED <<call, reportVars, asyncVars>>

\* The delete button beside the edit form, with the confirm accepted:
\* the form closes, then handleDelete.
handleDelete ==
  /\ showModal
  /\ editingExpense # None
  /\ FormUnmounts
  /\ deleteExpense(editingExpense.id)
  /\ refreshExpenses
  /\ UNCHANGED <<lsTrips, idbTrips, last, backend, route, trip,
                 editingExpense, showCloseConfirm, wizardVars>>
  /\ UNCHANGED <<call, reportVars, asyncVars>>

\* The header's close/reopen button.
ClickCloseTrip ==
  /\ Uncovered
  /\ showCloseConfirm' = TRUE
  /\ UNCHANGED <<storeVars, last, backend, route, trip, expenses, showModal,
                 editingExpense, formData, wizardVars, lookupVars>>
  /\ UNCHANGED serviceVars

\* The dialog's dismiss button.
DismissCloseConfirm ==
  /\ showCloseConfirm
  /\ showCloseConfirm' = FALSE
  /\ UNCHANGED <<storeVars, last, backend, route, trip, expenses, showModal,
                 editingExpense, formData, wizardVars, lookupVars>>
  /\ UNCHANGED serviceVars

\* A toggle that closes the trip whatever its status.
newStatus_closed(status) == "closed"

\* handleToggleTripStatus: the status the trip gets.
newStatus(status) == IF status = "active" THEN "closed" ELSE "active"

\* The dialog's confirm button.
handleToggleTripStatus ==
  /\ showCloseConfirm
  /\ trip # None
  /\ LET updatedTrip == [trip EXCEPT !.status = newStatus(trip.status)]
     IN /\ saveTrip(updatedTrip)
        /\ trip' = updatedTrip
  /\ showCloseConfirm' = FALSE
  /\ UNCHANGED <<lsExpenses, idbExpenses, last, backend, route, expenses,
                 showModal, editingExpense, formData, wizardVars, lookupVars>>
  /\ UNCHANGED serviceVars

\* The wizard and the expense form are filled and submitted in one step.
Next ==
  \/ \E id \in TripIds, a \in AdvanceValues \cup {NaN} :
       TripWizard_handleSubmit([NewTripForm(id) EXCEPT !.advanceAmount = a,
                                                       !.startDate = Today])
  \/ \E i \in 1..MaxTrips : loadData(i)
  \/ NavigateBack
  \/ \E id \in ExpenseIds : ClickAdd(id)
  \/ \E i \in 1..MaxExpenses : ClickExpense(i)
  \/ onClose
  \/ \E a \in AmountValues, r \in RateValues : handleSubmit(a, r)
  \/ handleDelete
  \/ ClickCloseTrip
  \/ DismissCloseConfirm
  \/ handleToggleTripStatus

Spec == InitApp /\ [][Next]_vars

\* ---------------------------------------------------------- trip wizard
\* One session of the wizard, from its mount to its submit.  A handler, the
\* render that follows it and the effect of that render are one step; a
\* lookup resolves in a step of its own.

InitTripForm ==
  /\ lsTrips = <<>>
  /\ lsExpenses = <<>>
  /\ idbTrips = <<>>
  /\ idbExpenses = <<>>
  /\ last = [op |-> "none"]
  /\ backend \in {"localStorage", "indexedDB"}
  /\ route = 0
  /\ trip = None
  /\ expenses = <<>>
  /\ showModal = FALSE
  /\ editingExpense = None
  /\ showCloseConfirm = FALSE
  /\ formData = None
  /\ wizard \in {NewTripForm(id) : id \in TripIds}
  /\ exchangeRate = RateOne
  /\ isManualRate = FALSE
  /\ loadingRate = FALSE
  /\ currencyLookups = 0
  /\ rateLookups = 0
  /\ manualEntry = <<>>
  /\ ServicesIdle

\* The conversion section, which holds the rate input, is rendered.
RateInputShown ==
  /\ wizard.localCurrencySuggestion # ""
  /\ wizard.baseCurrency # wizard.localCurrencySuggestion

\* fetchRate without the isManualRate test.
fetchRate_unguarded(fd) ==
  IF fd.baseCurrency = "" \/ fd.localCurrencySuggestion = ""
  THEN /\ wizard' = fd
       /\ UNCHANGED <<exchangeRate, isManualRate, loadingRate, rateLookups>>
  ELSE IF fd.baseCurrency = fd.localCurrencySuggestion
  THEN /\ exchangeRate' = RateOne
       /\ wizard' = [fd EXCEPT !.initialExchangeRate = RateOne]
       /\ UNCHANGED <<isManualRate, loadingRate, rateLookups>>
  ELSE /\ rateLookups < MaxInFlight
       /\ loadingRate' = TRUE
       /\ rateLookups' = rateLookups + 1
       /\ wizard' = fd
       /\ UNCHANGED <<exchangeRate, isManualRate>>

\* fetchRate that takes a run under a manual rate as the end of the override.
fetchRate_reverting(fd) ==
  IF fd.baseCurrency = "" \/ fd.localCurrencySuggestion = ""
  THEN /\ wizard' = fd
       /\ UNCHANGED <<exchangeRate, isManualRate, loadingRate, rateLookups>>
  ELSE IF fd.baseCurrency = fd.localCurrencySuggestion
  THEN /\ exchangeRate' = RateOne
       /\ wizard' = [fd EXCEPT !.initialExchangeRate = RateOne]
       /\ UNCHANGED <<isManualRate, loadingRate, rateLookups>>
  ELSE IF isManualRate
  THEN /\ wizard' = fd
       /\ isManualRate' = FALSE
       /\ UNCHANGED <<exchangeRate, loadingRate, rateLookups>>
  ELSE /\ rateLookups < MaxInFlight
       /\ loadingRate' = TRUE
       /\ rateLookups' = rateLookups + 1
       /\ wizard' = fd
       /\ UNCHANGED <<exchangeRate, isManualRate>>

\* The effect on [baseCurrency, localCurrencySuggestion, startDate], run on
\* the form data fd a handler has just set, up to its await.
fetchRate(fd) ==
  IF fd.baseCurrency = "" \/ fd.localCurrencySuggestion = ""
  THEN /\ wizard' = fd
       /\ UNCHANGED <<exchangeRate, isManualRate, loadingRate, rateLookups>>
  ELSE IF fd.baseCurrency = fd.localCurrencySuggestion
  THEN /\ exchangeRate' = RateOne
       /\ wizard' = [fd EXCEPT !.initialExchangeRate = RateOne]
       /\ UNCHANGED <<isManualRate, loadingRate, rateLookups>>
  ELSE IF isManualRate
  THEN /\ wizard' = fd
       /\ UNCHANGED <<exchangeRate, isManualRate, loadingRate, rateLookups>>
  ELSE /\ rateLookups < MaxInFlight
       /\ loadingRate' = TRUE
       /\ rateLookups' = rateLookups + 1
       /\ wizard' = fd
       /\ UNCHANGED <<exchangeRate, isManualRate>>

\* The start-date input: handleChange('startDate', d), then the effect.
handleChange_startDate(d) ==
  /\ wizard # None
  /\ d # wizard.startDate
  /\ fetchRate([wizard EXCEPT !.startDate = d])
  /\ UNCHANGED <<storeVars, last, dashVars, currencyLookups, manualEntry>>
  /\ UNCHANGED serviceVars

\* The base-currency select: handleChange('baseCurrency', c), then the
\* effect.  The currency pair changes.
handleChange_baseCurrency(c) ==
  /\ wizard # None
  /\ c # wizard.baseCurrency
  /\ fetchRate([wizard EXCEPT !.baseCurrency = c])
  /\ manualEntry' = <<>>
  /\ UNCHANGED <<storeVars, last, dashVars, currencyLookups>>
  /\ UNCHANGED serviceVars

\* The country input loses focus with a country typed: handleCountryBlur up
\* to its await.
handleCountryBlur ==
  /\ wizard # None
  /\ currencyLookups < MaxInFlight
  /\ currencyLookups' = currencyLookups + 1
  /\ UNCHANGED <<storeVars, last, dashVars, wizard, exchangeRate,
                 isManualRate, lookupVars>>
  /\ UNCHANGED serviceVars

\* suggestCurrencyForCountry resolves to c: the rest of handleCountryBlur,
\* then the effect when the suggestion changed.
handleCountryBlur_resolved(c) ==
  /\ wizard # None
  /\ currencyLookups > 0
  /\ currencyLookups' = currencyLookups - 1
  /\ IF c # wizard.localCurrencySuggestion
     THEN /\ fetchRate([wizard EXCEPT !.localCurrencySuggestion = c])
          /\ manualEntry' = <<>>
     ELSE UNCHANGED <<wizard, exchangeRate, isManualRate, lookupVars>>
  /\ UNCHANGED <<storeVars, last, dashVars>>
  /\ UNCHANGED serviceVars

\* suggestCurrencyForCountry rejects (503 on every attempt).
handleCountryBlur_rejected ==
  /\ wizard # None
  /\ currencyLookups > 0
  /\ currencyLookups' = currencyLookups - 1
  /\ UNCHANGED <<storeVars, last, dashVars, wizard, exchangeRate,
                 isManualRate, lookupVars>>
  /\ UNCHANGED serviceVars

\* handleRateChange without setIsManualRate(true).
handleRateChange_unmarked(rate) ==
  /\ wizard # None
  /\ RateInputShown
  /\ exchangeRate' = rate
  /\ wizard' = [wizard EXCEPT !.initialExchangeRate = rate]
  /\ manualEntry' = ManualEntry(rate, wizard.startDate, rateLookups)
  /\ UNCHANGED <<storeVars, last, dashVars, isManualRate, currencyLookups,
                 loadingRate, rateLookups>>
  /\ UNCHANGED serviceVars

\* The rate input: handleRateChange with parseFloat of the typed text.
handleRateChange(rate) ==
  /\ wizard # None
  /\ RateInputShown
  /\ exchangeRate' = rate
  /\ isManualRate' = TRUE
  /\ wizard' = [wizard EXCEPT !.initialExchangeRate = rate]
  /\ manualEntry' = ManualEntry(rate, wizard.startDate, rateLookups)
  /\ UNCHANGED <<storeVars, last, dashVars, currencyLookups, loadingRate,
                 rateLookups>>
  /\ UNCHANGED serviceVars

\* getEstimatedExchangeRate resolves to rate: the rest of fetchRate.
fetchRate_resolved(rate) ==
  /\ wizard # None
  /\ rateLookups > 0
  /\ rateLookups' = rateLookups - 1
  /\ exchangeRate' = rate
  /\ wizard' = [wizard EXCEPT !.initialExchangeRate = rate]
  /\ loadingRate' = FALSE
  /\ UNCHANGED <<storeVars, last, dashVars, isManualRate, currencyLookups,
                 manualEntry>>
  /\ UNCHANGED serviceVars

\* getEstimatedExchangeRate rejects (503 on every attempt): fetchRate ends
\* at its await.
fetchRate_rejected ==
  /\ wizard # None
  /\ rateLookups > 0
  /\ rateLookups' = rateLookups - 1
  /\ UNCHANGED <<storeVars, last, dashVars, wizardVars, loadingRate,
                 manualEntry>>
  /\ UNCHANGED serviceVars

\* The submit button, with the advance field holding advanceAmount.
TripWizard_submit(advanceAmount) ==
  /\ wizard # None
  /\ TripWizard_handleSubmit([wizard EXCEPT !.advanceAmount = advanceAmount])

NextTripForm ==
  \/ \E d \in Dates : handleChange_startDate(d)
  \/ \E c \in Currencies : handleChange_baseCurrency(c)
  \/ handleCountryBlur
  \/ \E c \in Currencies : handleCountryBlur_resolved(c)
  \/ handleCountryBlur_rejected
  \/ \E r \in TypedRates \cup {NaN} : handleRateChange(r)
  \/ \E r \in LookupRates : fetchRate_resolved(r)
  \/ fetchRate_rejected
  \/ \E a \in AdvanceValues : TripWizard_submit(a)

SpecTripForm == InitTripForm /\ [][NextTripForm]_vars

\* --------------------------------------------------------- expense form
\* The form of one dashboard on one expense, mounted to add it and again to
\* edit it, field by field.  A handler and the render that follows it are
\* one step; a lookup resolves in a step of its own.

\* The trip the dashboard is opened on: a wizard's trip in USD whose
\* suggested local currency is c.
FormTrip(c) ==
  SubmittedTrip([NewTripForm(1) EXCEPT !.localCurrencySuggestion = c,
                                       !.startDate = Today])

InitExpenseForm ==
  /\ backend \in {"localStorage", "indexedDB"}
  /\ trip \in {FormTrip(c) : c \in Currencies}
  /\ lsTrips = (IF backend = "localStorage" THEN <<trip>> ELSE <<>>)
  /\ idbTrips = (IF backend = "indexedDB" THEN <<trip>> ELSE <<>>)
  /\ lsExpenses = <<>>
  /\ idbExpenses = <<>>
  /\ last = [op |-> "none"]
  /\ route = trip.id
  /\ expenses = <<>>
  /\ showModal = FALSE
  /\ editingExpense = None
  /\ showCloseConfirm = FALSE
  /\ formData = None
  /\ FormsIdle

\* updateRate(currency, date), run on the form data fd the handler has just
\* set, up to its await.
updateRate(fd, currency, date) ==
  IF currency = trip.baseCurrency
  THEN /\ formData' = [fd EXCEPT !.exchangeRate = RateOne]
       /\ latestLookup' = [state |-> "local", currency |-> currency,
                           date |-> date, rate |-> RateOne]
       /\ UNCHANGED <<loadingRate, rateLookups>>
  ELSE /\ rateLookups < MaxInFlight
       /\ formData' = fd
       /\ loadingRate' = TRUE
       /\ rateLookups' = rateLookups + 1
       /\ latestLookup' = [state |-> "pending", currency |-> currency,
                           date |-> date, rate |-> 0]

\* The calls in flight that were made before the last one.
EarlierLookups ==
  IF latestLookup.state = "pending" THEN rateLookups - 1 ELSE rateLookups

\* The date input's onChange: setFormData, then updateRate on the form's
\* currency and the new date.
onChange_date(d) ==
  /\ showModal
  /\ d # formData.date
  /\ updateRate([formData EXCEPT !.date = d], formData.currencyOriginal, d)
  /\ UNCHANGED <<storeVars, last, backend, route, trip, expenses, showModal,
                 editingExpense, showCloseConfirm, wizardVars, manualEntry>>
  /\ UNCHANGED <<call, scanVars, reportVars, asyncVars>>

\* The amount input's onChange, with parseFloat of the typed text.
onChange_amountOriginal(a) ==
  /\ showModal
  /\ a # formData.amountOriginal
  /\ formData' = [formData EXCEPT !.amountOriginal = a]
  /\ UNCHANGED <<storeVars, last, backend, route, trip, expenses, showModal,
                 editingExpense, showCloseConfirm, wizardVars, lookupVars>>
  /\ UNCHANGED serviceVars

\* The currency input's onChange.  The currency pair changes.
onChange_currencyOriginal(c) ==
  /\ showModal
  /\ c # formData.currencyOriginal
  /\ formData' = [formData EXCEPT !.currencyOriginal = c]
  /\ manualEntry' = <<>>
  /\ UNCHANGED <<storeVars, last, backend, route, trip, expenses, showModal,
                 editingExpense, showCloseConfirm, wizardVars, loadingRate,
                 rateLookups>>
  /\ UNCHANGED serviceVars

\* The currency input's onBlur: updateRate on the form's currency and date.
onBlur_currencyOriginal ==
  /\ showModal
  /\ updateRate(formData, formData.currencyOriginal, formData.date)
  /\ manualEntry' = <<>>
  /\ UNCHANGED <<storeVars, last, backend, route, trip, expenses, showModal,
                 editingExpense, showCloseConfirm, wizardVars>>
  /\ UNCHANGED <<call, scanVars, reportVars, asyncVars>>

\* The update-rate button: updateRate on the form's currency and date.
onClick_updateRate ==
  /\ showModal
  /\ updateRate(formData, formData.currencyOriginal, formData.date)
  /\ manualEntry' = <<>>
  /\ UNCHANGED <<storeVars, last, backend, route, trip, expenses, showModal,
                 editingExpense, showCloseConfirm, wizardVars>>
  /\ UNCHANGED <<call, scanVars, reportVars, asyncVars>>

\* The rate input's onChange, with parseFloat of the typed text.
onChange_exchangeRate(rate) ==
  /\ showModal
  /\ formData' = [formData EXCEPT !.exchangeRate = rate]
  /\ manualEntry' = ManualEntry(rate, formData.date, rateLookups)
  /\ UNCHANGED <<storeVars, last, backend, route, trip, expenses, showModal,
                 editingExpense, showCloseConfirm, wizardVars, loadingRate,
                 rateLookups>>
  /\ latestLookup' = (IF latestLookup.state = "pending" THEN latestLookup
                      ELSE [latestLookup EXCEPT !.state = "typed"])
  /\ UNCHANGED <<call, scanVars, reportVars, asyncVars>>

\* getEstimatedExchangeRate resolves to rate: the rest of updateRate.
updateRate_resolved(rate) ==
  /\ showModal
  /\ rateLookups > 0
  /\ rateLookups' = rateLookups - 1
  /\ formData' = [formData EXCEPT !.exchangeRate = rate]
  /\ loadingRate' = FALSE
  /\ \/ /\ latestLookup.state = "pending"
        /\ latestLookup' = [latestLookup EXCEPT !.state = "resolved",
                                                !.rate = rate]
     \/ /\ EarlierLookups > 0
        /\ UNCHANGED latestLookup
  /\ UNCHANGED <<storeVars, last, backend, route, trip, expenses, showModal,
                 editingExpense, showCloseConfirm, wizardVars, manualEntry>>
  /\ UNCHANGED <<call, scanVars, reportVars, asyncVars>>

\* getEstimatedExchangeRate rejects (503 on every attempt): updateRate ends
\* at its await.
updateRate_rejected ==
  /\ showModal
  /\ rateLookups > 0
  /\ rateLookups' = rateLookups - 1
  /\ \/ /\ latestLookup.state = "pending"
        /\ latestLookup' = [latestLookup EXCEPT !.state = "rejected"]
     \/ /\ EarlierLookups > 0
        /\ UNCHANGED latestLookup
  /\ UNCHANGED <<storeVars, last, dashVars, wizardVars, loadingRate,
                 manualEntry>>
  /\ UNCHANGED <<call, scanVars, reportVars, asyncVars>>

\* The save button, on the fields as they are.
ExpenseForm_submit ==
  /\ showModal
  /\ handleSubmit(formData.amountOriginal, formData.exchangeRate)

\* The identifier generateUUID hands out to the form of this dashboard.
FormExpenseIds == {1}

NextExpenseForm ==
  \/ \E id \in FormExpenseIds : ClickAdd(id)
  \/ \E i \in 1..Len(expenses) : ClickExpense(i)
  \/ onClose
  \/ handleDelete
  \/ \E d \in Dates : onChange_date(d)
  \/ \E a \in AmountValues : onChange_amountOriginal(a)
  \/ \E c \in Currencies : onChange_currencyOriginal(c)
  \/ onBlur_currencyOriginal
  \/ onClick_updateRate
  \/ \E r \in TypedRates : onChange_exchangeRate(r)
  \/ \E r \in LookupRates : updateRate_resolved(r)
  \/ updateRate_rejected
  \/ ExpenseForm_submit

SpecExpenseForm == InitExpenseForm /\ [][NextExpenseForm]_vars

\* The service settles every call: a lookup in flight resolves or rejects.
\* What the user does next is not forced.
SpecExpenseFormFair ==
  /\ SpecExpenseForm
  /\ WF_vars((\E r \in LookupRates : updateRate_resolved(r))
               \/ updateRate_rejected)

\* ------------------------------------------------------- the AI service
\* One call of getEstimatedExchangeRate or analyzeReceipt at a time, followed
\* through retryOperation: each invocation of the operation settles in a step
\* of its own with what the remote model answered, and so does each timer.
\* Rates are in hundredths here, messages are sequences of their parts.

\* The JavaScript number 1.0 as a rate the service returns (hundredths).
ServiceRateOne == 100

\* retryOperation's default parameters.
DefaultRetries == 3

DefaultDelay == 2000

\* A string where the response schema asks for a number: truthy, no number.
NonNumeric == 0 - 997

\* An error object; status 0 stands for no status property and the empty
\* message for no message.
Error(status, message) == [status |-> status, message |-> message]

\* String.prototype.includes on a message.
Includes(message, part) == \E i \in 1..Len(message) : message[i] = part

\* The messages analyzeReceipt throws.
KeyMissing ==
  <<"API Key", "missing. Please check VITE_API_KEY in your .env file or settings.">>

NoResponse == <<"No response from AI">>

NotValidJson == <<"AI response was not", "valid JSON", ". Please enter manually.">>

QuotaExceeded ==
  <<"Daily AI", "Quota", "Exceeded. Please enter expense details manually.">>

AnalysisFailed == <<"AI Analysis failed: ">>

FailedToAnalyze ==
  <<"Failed to analyze receipt. Please try again or enter manually.">>

\* What a promise settles to.
Resolve(v) == [ok |-> TRUE, value |-> v]

Throw(e) == [ok |-> FALSE, error |-> e]

\* The errors generateContent rejects with.
RemoteErrors ==
  { Error(503, <<"The model is ", "overloaded", ". Please try again later.">>),
    Error(0, <<"got status: ", "503", " Service Unavailable">>),
    Error(0, <<"UNAVAILABLE">>),
    Error(429, <<"RESOURCE_EXHAUSTED">>),
    Error(0, <<"Failed to fetch">>),
    Error(0, <<>>) }

\* response.text for the exchange-rate prompt: a JSON object with the rate
\* field positive, zero, negative, missing or not a number; text that is not
\* JSON; no text.
RatePayloads ==
  {[kind |-> "json", rate |-> r] : r \in {123, 0, 0 - 50, Null, NonNumeric}}
    \cup {[kind |-> "invalid"], [kind |-> "empty"]}

\* The categories the model answers with.
AiCategories ==
  {"Meal", "meal", "TRANSPORT", "Lodging", "flight", "SUPPLIES",
   "Entertainment", "other", "Food", ""}

\* response.text for the receipt prompt: a JSON object with or without the
\* category field; text that is not JSON; no text.
ReceiptPayloads ==
  {[kind |-> "json", category |-> c] : c \in AiCategories}
    \cup {[kind |-> "json"], [kind |-> "invalid"], [kind |-> "empty"]}

\* What generateContent settles to.
RemoteOutcomes(payloads) ==
  {Resolve(p) : p \in payloads} \cup {Throw(e) : e \in RemoteErrors}

\* The operation threw before it called generateContent.
NotContacted == [ok |-> FALSE, error |-> Error(0, <<"not contacted">>)]

\* Object.values(ExpenseCategory), in declaration order.
ExpenseCategory ==
  <<"Meal", "Transport", "Lodging", "Flight", "Supplies", "Entertainment",
    "Other">>

\* String.prototype.toUpperCase on a category.
ToUpperCase(c) ==
  CASE c \in {"Meal", "meal", "MEAL"} -> "MEAL"
    [] c \in {"Transport", "TRANSPORT"} -> "TRANSPORT"
    [] c \in {"Lodging", "LODGING"} -> "LODGING"
    [] c \in {"Flight", "flight", "FLIGHT"} -> "FLIGHT"
    [] c \in {"Supplies", "SUPPLIES"} -> "SUPPLIES"
    [] c \in {"Entertainment", "ENTERTAINMENT"} -> "ENTERTAINMENT"
    [] c \in {"Other", "other", "OTHER"} -> "OTHER"
    [] c \in {"Food", "FOOD"} -> "FOOD"
    [] OTHER -> c

\* The category mapping that compares the category as it was answered.
CategoryOf_exact(data) ==
  IF "category" \in DOMAIN data
       /\ \E i \in 1..Len(ExpenseCategory) : ExpenseCategory[i] = data.category
  THEN data.category
  ELSE "Other"

\* The category of the result: the enum value whose upper case is the upper
\* case of data.category, else Other; catUpper is undefined without the field.
CategoryOf(data) ==
  IF "category" \in DOMAIN data
  THEN LET catUpper == ToUpperCase(data.category)
           matches == {i \in 1..Len(ExpenseCategory) :
                         ToUpperCase(ExpenseCategory[i]) = catUpper}
       IN IF matches # {}
          THEN ExpenseCategory[CHOOSE i \in matches : \A j \in matches : i <= j]
          ELSE "Other"
  ELSE "Other"

\* getEstimatedExchangeRate without a credential: the static table.
StaticRate(fromCurrency, toCurrency) ==
  LET pair == <<fromCurrency, toCurrency>>
  IN CASE pair = <<"USD", "BRL">> -> 500
       [] pair = <<"BRL", "USD">> -> 20
       [] pair = <<"EUR", "BRL">> -> 550
       [] pair = <<"BRL", "EUR">> -> 18
       [] pair = <<"USD", "EUR">> -> 92
       [] pair = <<"EUR", "USD">> -> 109
       [] OTHER -> ServiceRateOne

\* The operation getEstimatedExchangeRate hands to retryOperation, given what
\* generateContent settled to.
getEstimatedExchangeRate_operation(remote) ==
  IF remote.ok
  THEN IF remote.value.kind = "invalid"
       THEN Resolve(ServiceRateOne)
       ELSE Resolve(OrDefault(IF remote.value.kind = "json"
                              THEN remote.value.rate ELSE Null,
                              ServiceRateOne))
  ELSE IF remote.error.status = 503 \/ Includes(remote.error.message, "503")
       THEN Throw(remote.error)
       ELSE Resolve(ServiceRateOne)

\* The catch block of analyzeReceipt that keeps the custom errors' messages
\* out of its tests and wraps every error that is no quota or overload error.
analyzeReceipt_catch_wrapping(error) ==
  IF \/ error.status = 429
     \/ Includes(error.message, "429")
     \/ Includes(error.message, "quota")
     \/ Includes(error.message, "RESOURCE_EXHAUSTED")
  THEN Error(0, QuotaExceeded)
  ELSE IF \/ error.status = 503
          \/ Includes(error.message, "503")
          \/ Includes(error.message, "overloaded")
       THEN error
       ELSE Error(0, AnalysisFailed \o error.message)

\* The catch block of analyzeReceipt: the error it throws for a caught one.
analyzeReceipt_catch(error) ==
  IF \/ error.status = 429
     \/ Includes(error.message, "429")
     \/ Includes(error.message, "quota")
     \/ Includes(error.message, "RESOURCE_EXHAUSTED")
  THEN Error(0, QuotaExceeded)
  ELSE IF \/ error.status = 503
          \/ Includes(error.message, "503")
          \/ Includes(error.message, "overloaded")
       THEN error
       ELSE IF error.message # <<>>
            THEN IF \/ Includes(error.message, "Quota")
                    \/ Includes(error.message, "valid JSON")
                    \/ Includes(error.message, "API Key")
                 THEN error
                 ELSE Error(0, AnalysisFailed \o error.message)
            ELSE Error(0, FailedToAnalyze)

\* The operation analyzeReceipt hands to retryOperation, with or without a
\* credential, given what generateContent settled to.
analyzeReceipt_operation(key, remote) ==
  IF ~key THEN Throw(analyzeReceipt_catch(Error(0, KeyMissing)))
  ELSE IF ~remote.ok THEN Throw(analyzeReceipt_catch(remote.error))
  ELSE IF remote.value.kind = "empty"
       THEN Throw(analyzeReceipt_catch(Error(0, NoResponse)))
  ELSE IF remote.value.kind = "invalid"
       THEN Throw(analyzeReceipt_catch(Error(0, NotValidJson)))
  ELSE Resolve([category |-> CategoryOf(remote.value)])

\* retryOperation's test of a caught error.
isOverloaded(error) ==
  \/ error.status = 503
  \/ Includes(error.message, "503")
  \/ Includes(error.message, "overloaded")
  \/ Includes(error.message, "UNAVAILABLE")

\* retryOperation that waits and retries after every error.
retryOperation_anyError(c, remote, result) ==
  LET tried == [c EXCEPT !.attempts = Append(@, [remote |-> remote,
                                                 result |-> result])]
  IN IF result.ok
     THEN [tried EXCEPT !.phase = "resolved", !.result = result]
     ELSE IF c.retries > 0
          THEN [tried EXCEPT !.phase = "wait", !.waits = Append(@, c.delay)]
          ELSE [tried EXCEPT !.phase = "rejected", !.result = result]

\* retryOperation after the operation settled to result: the call resolves,
\* waits delay ms before the next invocation, or rejects.
retryOperation(c, remote, result) ==
  LET tried == [c EXCEPT !.attempts = Append(@, [remote |-> remote,
                                                 result |-> result])]
  IN IF result.ok
     THEN [tried EXCEPT !.phase = "resolved", !.result = result]
     ELSE IF isOverloaded(result.error) /\ c.retries > 0
          THEN [tried EXCEPT !.phase = "wait", !.waits = Append(@, c.delay)]
          ELSE [tried EXCEPT !.phase = "rejected", !.result = result]

\* A call that entered retryOperation with the default parameters.
Started(fn, key) ==
  [fn |-> fn, key |-> key, retries |-> DefaultRetries, delay |-> DefaultDelay,
   attempts |-> <<>>, waits |-> <<>>, phase |-> "invoke",
   result |-> Resolve(Null)]

\* A call that returned before retryOperation.
Returned(fn, key, v) ==
  [Started(fn, key) EXCEPT !.phase = "resolved", !.result = Resolve(v)]

\* No call is running.
CallSettled ==
  IF call.fn = "none" THEN TRUE ELSE call.phase \in {"resolved", "rejected"}

InitService ==
  /\ lsTrips = <<>>
  /\ lsExpenses = <<>>
  /\ idbTrips = <<>>
  /\ idbExpenses = <<>>
  /\ last = [op |-> "none"]
  /\ DashIdle

\* getEstimatedExchangeRate(fromCurrency, toCurrency, date), with or without
\* a configured key, up to its first await.
getEstimatedExchangeRate(fromCurrency, toCurrency, key) ==
  /\ CallSettled
  /\ call' = (IF fromCurrency = toCurrency
              THEN Returned("getEstimatedExchangeRate", key, ServiceRateOne)
              ELSE IF ~key
              THEN Returned("getEstimatedExchangeRate", key,
                            StaticRate(fromCurrency, toCurrency))
              ELSE Started("getEstimatedExchangeRate", key))
  /\ UNCHANGED <<storeVars, last, dashVars, wizardVars, lookupVars, scanVars,
                 reportVars, latestLookup, asyncVars>>

\* analyzeReceipt(base64Image), with or without a configured key, up to the
\* first invocation of its operation.
analyzeReceipt(key) ==
  /\ CallSettled
  /\ call' = Started("analyzeReceipt", key)
  /\ UNCHANGED <<storeVars, last, dashVars, wizardVars, lookupVars, scanVars,
                 reportVars, latestLookup, asyncVars>>

\* What generateContent can settle to in the running invocation.
Remotes ==
  IF call.fn = "getEstimatedExchangeRate" THEN RemoteOutcomes(RatePayloads)
  ELSE IF call.fn = "analyzeReceipt"
  THEN IF call.key THEN RemoteOutcomes(ReceiptPayloads) ELSE {NotContacted}
  ELSE {}

\* The invoked operation settles and retryOperation goes on.
operation_settles(remote) ==
  /\ call.fn # "none"
  /\ call.phase = "invoke"
  /\ call' = retryOperation(
               call, remote,
               IF call.fn = "getEstimatedExchangeRate"
               THEN getEstimatedExchangeRate_operation(remote)
               ELSE analyzeReceipt_operation(call.key, remote))
  /\ UNCHANGED <<storeVars, last, dashVars, wizardVars, lookupVars, scanVars,
                 reportVars, latestLookup, asyncVars>>

\* The timer of retryOperation fires: the recursive call invokes the
\* operation with one retry less and twice the delay.
setTimeout_fires ==
  /\ call.fn # "none"
  /\ call.phase = "wait"
  /\ call' = [call EXCEPT !.phase = "invoke", !.retries = @ - 1,
                          !.delay = @ * 2]
  /\ UNCHANGED <<storeVars, last, dashVars, wizardVars, lookupVars, scanVars,
                 reportVars, latestLookup, asyncVars>>

\* The currencies of the static table and one outside it.
ServiceCurrencies == {"USD", "EUR", "BRL", "JPY"}

NextService ==
  \/ \E f \in ServiceCurrencies, t \in ServiceCurrencies, key \in BOOLEAN :
       getEstimatedExchangeRate(f, t, key)
  \/ \E key \in BOOLEAN : analyzeReceipt(key)
  \/ \E remote \in Remotes : operation_settles(remote)
  \/ setTimeout_fires

SpecService == InitService /\ [][NextService]_vars

\* Every invocation settles and every timer fires.
SpecServiceFair ==
  /\ SpecService
  /\ WF_vars(\E remote \in Remotes : operation_settles(remote))
  /\ WF_vars(setTimeout_fires)

\* ------------------------------------------------------- receipt scan
\* The expense form with its receipt scan: handleFileChange up to its first
\* await, and one step for each promise it awaits.  The buttons that open
\* the file input are not rendered while isScanning.

\* The alert text for an error without a message.
CouldNotAnalyze ==
  <<"Could not analyze receipt. Please enter details manually.">>

\* The fields of the OCR result the form data takes; "" and Null stand for a
\* field the model left out.
OcrResults ==
  [date : {"", "2024-01-02"}, amount : {Null, 1}, currency : {"", "USD", "EUR"}]

\* The errors resizeImage and analyzeReceipt reject with.
ScanErrors ==
  { Error(0, KeyMissing), Error(0, NotValidJson), Error(0, QuotaExceeded),
    Error(0, <<>>) }
    \cup {e \in RemoteErrors : isOverloaded(e)}

\* The errors getEstimatedExchangeRate rejects with.
RateErrors ==
  {e \in RemoteErrors : e.status = 503 \/ Includes(e.message, "503")}

\* handleFileChange with a chosen file, up to the await of resizeImage and
\* analyzeReceipt; scan keeps the formData of the render the handler closed over.
handleFileChange ==
  /\ showModal
  /\ ~isScanning
  /\ isScanning' = TRUE
  /\ scan' = [phase |-> "analyze", formData |-> formData, applied |-> FALSE]
  /\ UNCHANGED <<storeVars, last, dashVars, wizardVars, lookupVars, call,
                 reportVars, latestLookup, asyncVars>>

\* analyzeReceipt resolves to ocrResult: the form data takes its fields and,
\* when it has a currency or a date, updateRate runs up to its await.
handleFileChange_analyzed(ocrResult) ==
  /\ showModal
  /\ scan.phase = "analyze"
  /\ LET fd == [formData EXCEPT
                  !.date = IF ocrResult.date # "" THEN ocrResult.date ELSE @,
                  !.amountOriginal = OrDefault(ocrResult.amount, 0),
                  !.currencyOriginal = IF ocrResult.currency # ""
                                       THEN ocrResult.currency ELSE @]
         currency == IF ocrResult.currency # "" THEN ocrResult.currency
                     ELSE scan.formData.currencyOriginal
     IN IF ocrResult.currency # "" \/ ocrResult.date # ""
        THEN IF currency = trip.baseCurrency
             THEN /\ formData' = [fd EXCEPT !.exchangeRate = RateOne]
                  /\ isScanning' = FALSE
                  /\ scan' = [phase |-> "idle"]
                  /\ UNCHANGED loadingRate
             ELSE /\ formData' = fd
                  /\ loadingRate' = TRUE
                  /\ scan' = [scan EXCEPT !.phase = "rate", !.applied = TRUE]
                  /\ UNCHANGED isScanning
        ELSE /\ formData' = fd
             /\ isScanning' = FALSE
             /\ scan' = [phase |-> "idle"]
             /\ UNCHANGED loadingRate
  /\ UNCHANGED <<storeVars, last, backend, route, trip, expenses, showModal,
                 editingExpense, showCloseConfirm, wizardVars, rateLookups,
                 manualEntry, call, reportVars, latestLookup, asyncVars>>

\* resizeImage or analyzeReceipt rejects with error: catch and finally.
handleFileChange_rejected(error) ==
  /\ showModal
  /\ scan.phase = "analyze"
  /\ alertShown' = (IF error.message # <<>> THEN error.message
                    ELSE CouldNotAnalyze)
  /\ isScanning' = FALSE
  /\ scan' = [scan EXCEPT !.phase = "failed"]
  /\ UNCHANGED <<storeVars, last, dashVars, wizardVars, lookupVars, call,
                 failed, latestLookup, asyncVars>>

\* The getEstimatedExchangeRate call of the scan's updateRate resolves to
\* rate: the rest of updateRate, then finally.
handleFileChange_rateResolved(rate) ==
  /\ showModal
  /\ scan.phase = "rate"
  /\ formData' = [formData EXCEPT !.exchangeRate = rate]
  /\ loadingRate' = FALSE
  /\ isScanning' = FALSE
  /\ scan' = [phase |-> "idle"]
  /\ UNCHANGED <<storeVars, last, backend, route, trip, expenses, showModal,
                 editingExpense, showCloseConfirm, wizardVars, rateLookups,
                 manualEntry, call, reportVars, latestLookup, asyncVars>>

\* The getEstimatedExchangeRate call of the scan's updateRate rejects with
\* error: updateRate ends at its await, then catch and finally.
handleFileChange_rateRejected(error) ==
  /\ showModal
  /\ scan.phase = "rate"
  /\ alertShown' = (IF error.message # <<>> THEN error.message
                    ELSE CouldNotAnalyze)
  /\ isScanning' = FALSE
  /\ scan' = [scan EXCEPT !.phase = "failed"]
  /\ UNCHANGED <<storeVars, last, dashVars, wizardVars, lookupVars, call,
                 failed, latestLookup, asyncVars>>

NextReceiptScan ==
  \/ \E id \in FormExpenseIds : ClickAdd(id)
  \/ onClose
  \/ \E a \in AmountValues : onChange_amountOriginal(a)
  \/ \E c \in Currencies : onChange_currencyOriginal(c)
  \/ handleFileChange
  \/ \E ocrResult \in OcrResults : handleFileChange_analyzed(ocrResult)
  \/ \E error \in ScanErrors : handleFileChange_rejected(error)
  \/ \E r \in LookupRates : handleFileChange_rateResolved(r)
  \/ \E error \in RateErrors : handleFileChange_rateRejected(error)
  \/ ExpenseForm_submit

SpecReceiptScan == InitExpenseForm /\ [][NextReceiptScan]_vars

\* ------------------------------------------------- storage failures
\* The dashboard, the trip list and the wizard with storage calls that
\* reject: openDB or the transaction fails (the promise rejects), or the
\* localStorage call throws inside the async handler.  A rejected call
\* leaves the stores as they are; failed records the call, whether its
\* caller logged the error and the alert its caller showed.

\* The alert of TripWizard.handleSubmit.
FailedToCreateTrip == <<"Failed to create trip. Please try again.">>

Rejected(op, caller, logged, alerted) ==
  [op |-> op, caller |-> caller, logged |-> logged, alerted |-> alerted]

\* TripWizard.handleSubmit, saveTrip rejecting: console.error, alert, and the
\* wizard stays.
TripWizard_handleSubmit_rejected ==
  /\ route = 0
  /\ failed' = Rejected("saveTrip", "TripWizard.handleSubmit", TRUE,
                        FailedToCreateTrip)
  /\ alertShown' = FailedToCreateTrip
  /\ UNCHANGED <<storeVars, last, dashVars, wizardVars, lookupVars, call,
                 scanVars, latestLookup, asyncVars>>

\* TripList's fetchTrips, getTrips rejecting: console.error.
fetchTrips_rejected ==
  /\ route = 0
  /\ failed' = Rejected("getTrips", "TripList.fetchTrips", TRUE, <<>>)
  /\ UNCHANGED <<storeVars, last, dashVars, wizardVars, lookupVars, call,
                 scanVars, alertShown, latestLookup, asyncVars>>

\* loadData of the i-th trip, getExpenses rejecting: the trip is set, the
\* expenses stay empty, console.error.
loadData_rejected(i) ==
  /\ route = 0
  /\ wizard = None
  /\ i \in 1..Len(getTrips)
  /\ route' = getTrips[i].id
  /\ trip' = getTrips[i]
  /\ expenses' = <<>>
  /\ failed' = Rejected("getExpenses", "TripDashboard.loadData", TRUE, <<>>)
  /\ UNCHANGED <<storeVars, last, backend, showModal, editingExpense,
                 showCloseConfirm, formData, wizardVars, lookupVars, call,
                 scanVars, alertShown, latestLookup, asyncVars>>

\* handleSaveExpense, saveExpense rejecting: the handler ends at its first
\* await and the form stays.
handleSaveExpense_rejected ==
  /\ showModal
  /\ failed' = Rejected("saveExpense", "TripDashboard.handleSaveExpense",
                        FALSE, <<>>)
  /\ UNCHANGED <<storeVars, last, dashVars, wizardVars, lookupVars, call,
                 scanVars, alertShown, latestLookup, asyncVars>>

\* handleSaveExpense, the getExpenses of refreshExpenses rejecting: the
\* expense is stored, the handler ends at its second await and the form stays.
handleSaveExpense_refreshRejected(amountOriginal, exchangeRate_) ==
  /\ showModal
  /\ amountOriginal # NaN
  /\ saveExpense(SubmittedExpense(
       [formData EXCEPT !.amountOriginal = amountOriginal,
                        !.exchangeRate = exchangeRate_]))
  /\ failed' = Rejected("getExpenses", "TripDashboard.handleSaveExpense",
                        FALSE, <<>>)
  /\ UNCHANGED <<lsTrips, idbTrips, last, dashVars, wizardVars, lookupVars,
                 call, scanVars, alertShown, latestLookup, asyncVars>>

\* The delete button beside the edit form, deleteExpense rejecting: the form
\* has closed and handleDelete ends at its first await.
handleDelete_rejected ==
  /\ showModal
  /\ editingExpense # None
  /\ FormUnmounts
  /\ failed' = Rejected("deleteExpense", "TripDashboard.handleDelete",
                        FALSE, <<>>)
  /\ UNCHANGED <<storeVars, last, backend, route, trip, expenses,
                 editingExpense, showCloseConfirm, wizardVars, call,
                 alertShown, asyncVars>>

\* handleToggleTripStatus, saveTrip rejecting: the handler ends at its await
\* and the dialog stays.
handleToggleTripStatus_rejected ==
  /\ showCloseConfirm
  /\ trip # None
  /\ failed' = Rejected("saveTrip", "TripDashboard.handleToggleTripStatus",
                        FALSE, <<>>)
  /\ UNCHANGED <<storeVars, last, dashVars, wizardVars, lookupVars, call,
                 scanVars, alertShown, latestLookup, asyncVars>>

\* The rate editor is rendered: the trip has another local currency.
RateEditorShown ==
  /\ Uncovered
  /\ trip # None
  /\ trip.baseCurrency # trip.localCurrencySuggestion

\* The rate editor opened, tempRate typed (parseFloat of the text) and the
\* check button clicked: handleSaveRate.
handleSaveRate(tempRate) ==
  /\ RateEditorShown
  /\ LET updatedTrip == [trip EXCEPT !.initialExchangeRate = tempRate]
     IN /\ saveTrip(updatedTrip)
        /\ trip' = updatedTrip
  /\ UNCHANGED <<lsExpenses, idbExpenses, last, backend, route, expenses,
                 showModal, editingExpense, showCloseConfirm, formData,
                 wizardVars, lookupVars, serviceVars>>

\* handleSaveRate, saveTrip rejecting: the handler ends at its await.
handleSaveRate_rejected ==
  /\ RateEditorShown
  /\ failed' = Rejected("saveTrip", "TripDashboard.handleSaveRate", FALSE,
                        <<>>)
  /\ UNCHANGED <<storeVars, last, dashVars, wizardVars, lookupVars, call,
                 scanVars, alertShown, latestLookup, asyncVars>>

NextStorageFailure ==
  \/ Next
  \/ TripWizard_handleSubmit_rejected
  \/ fetchTrips_rejected
  \/ \E i \in 1..MaxTrips : loadData_rejected(i)
  \/ handleSaveExpense_rejected
  \/ \E a \in AmountValues, r \in RateValues :
       handleSaveExpense_refreshRejected(a, r)
  \/ handleDelete_rejected
  \/ handleToggleTripStatus_rejected
  \/ \E r \in TypedRates : handleSaveRate(r)
  \/ handleSaveRate_rejected

SpecStorageFailure == InitApp /\ [][NextStorageFailure]_vars

\* ------------------------------------------------------ category chart
\* The dashboard's expenses state filled one expense at a time, as a refresh
\* after each save does, with the fields chartData and totalSpent read.

MaxChartExpenses == 3

\* Categories and base amounts (thousandths) of the listed expenses.
ChartCategories == {"Meal", "Transport", "Other"}

ChartAmounts == {0, 10, 25}

\* chartData that keeps the last amount of a category.
RECURSIVE chartData_last(_)
chartData_last(list) ==
  IF list = <<>> THEN <<>>
  ELSE LET groups == chartData_last(SubSeq(list, 1, Len(list) - 1))
           e == list[Len(list)]
       IN IF \E i \in 1..Len(groups) : groups[i].name = e.category
          THEN [i \in 1..Len(groups) |->
                  IF groups[i].name = e.category
                  THEN [name |-> e.category, value |-> e.amountBase]
                  ELSE groups[i]]
          ELSE Append(groups, [name |-> e.category, value |-> e.amountBase])

\* useMemo: groups filled by expenses.forEach, then one {name, value} per
\* key of groups, in the order the keys were added.
RECURSIVE chartData(_)
chartData(list) ==
  IF list = <<>> THEN <<>>
  ELSE LET groups == chartData(SubSeq(list, 1, Len(list) - 1))
           e == list[Len(list)]
       IN IF \E i \in 1..Len(groups) : groups[i].name = e.category
          THEN [i \in 1..Len(groups) |->
                  IF groups[i].name = e.category
                  THEN [name |-> e.category,
                        value |-> OrDefault(groups[i].value, 0) + e.amountBase]
                  ELSE groups[i]]
          ELSE Append(groups, [name |-> e.category, value |-> 0 + e.amountBase])

InitChart ==
  /\ lsTrips = <<>>
  /\ lsExpenses = <<>>
  /\ idbTrips = <<>>
  /\ idbExpenses = <<>>
  /\ last = [op |-> "none"]
  /\ DashIdle

\* setExpenses with the list of a refresh that holds one more expense.
setExpenses_added(category, amountBase) ==
  /\ Len(expenses) < MaxChartExpenses
  /\ expenses' = Append(expenses, [id |-> Len(expenses) + 1, tripId |-> 1,
                                    category |-> category,
                                    amountBase |-> amountBase])
  /\ UNCHANGED <<storeVars, last, backend, route, trip, showModal,
                 editingExpense, showCloseConfirm, formData, wizardVars,
                 lookupVars, serviceVars>>

\* setExpenses with the list of a refresh after the last expense was deleted.
setExpenses_removed ==
  /\ expenses # <<>>
  /\ expenses' = SubSeq(expenses, 1, Len(expenses) - 1)
  /\ UNCHANGED <<storeVars, last, backend, route, trip, showModal,
                 editingExpense, showCloseConfirm, formData, wizardVars,
                 lookupVars, serviceVars>>

NextChart ==
  \/ \E c \in ChartCategories, a \in ChartAmounts : setExpenses_added(c, a)
  \/ setExpenses_removed

SpecChart == InitChart /\ [][NextChart]_vars

\* ------------------------------------- the dashboard, calls in flight
\* The dashboard of a loaded trip over the IndexedDB service, each storage
\* call followed from the call to the continuation of the handler awaiting
\* it.  Every call opens the database and then a transaction on the expenses
\* store; the store runs its transactions in the order they were created,
\* and a read's result is handed over before the next transaction starts.

\* Identifiers generateUUID hands out to the forms of this dashboard.
InFlightExpenseIds == {1, 2}

\* A storage call in flight: its function, its argument and, for
\* getExpenses, the result once the request has read it.
Request(op, expense) ==
  [op |-> op, expense |-> expense, data |-> <<>>, read |-> FALSE]

\* The queue without its k-th call.
Settled(queue, k) ==
  SubSeq(queue, 1, k - 1) \o SubSeq(queue, k + 1, Len(queue))

\* Transactions that run in any order.
Served_anyOrder(queue) == 1..Len(queue)

\* The calls whose transaction the expenses store runs next: the oldest.
Served(queue) == IF queue = <<>> THEN {} ELSE {1}

InitInFlight ==
  /\ InitExpenseForm
  /\ backend = "indexedDB"

\* The form's save button: handleSubmit, then handleSaveExpense up to its
\* first await.  The form stays mounted.
handleSaveExpense_called(amountOriginal) ==
  /\ showModal
  /\ Len(pending) < MaxInFlight
  /\ pending' = Append(pending,
       Request("saveExpense",
               SubmittedExpense([formData EXCEPT
                                   !.amountOriginal = amountOriginal])))
  /\ UNCHANGED <<storeVars, last, dashVars, wizardVars, lookupVars, call,
                 scanVars, reportVars, latestLookup, isSaving>>

\* The delete button, with the confirm accepted: the form closes, then
\* handleDelete up to its first await.
handleDelete_called ==
  /\ showModal
  /\ editingExpense # None
  /\ Len(pending) < MaxInFlight
  /\ FormUnmounts
  /\ pending' = Append(pending, Request("deleteExpense", editingExpense))
  /\ UNCHANGED <<storeVars, last, backend, route, trip, expenses,
                 editingExpense, showCloseConfirm, wizardVars, call,
                 reportVars, isSaving>>

\* saveExpense's transaction completes: the rest of handleSaveExpense up to
\* the await inside refreshExpenses.
saveExpense_completes ==
  \E k \in Served(pending) :
    /\ pending[k].op = "saveExpense"
    /\ saveExpense(pending[k].expense)
    /\ FormUnmounts
    /\ editingExpense' = None
    /\ pending' = Append(Settled(pending, k), Request("getExpenses", None))
    /\ UNCHANGED <<lsTrips, idbTrips, last, backend, route, trip, expenses,
                   showCloseConfirm, wizardVars, call, reportVars, isSaving>>

\* deleteExpense's transaction completes: handleDelete up to the await
\* inside refreshExpenses.
deleteExpense_completes ==
  \E k \in Served(pending) :
    /\ pending[k].op = "deleteExpense"
    /\ deleteExpense(pending[k].expense.id)
    /\ pending' = Append(Settled(pending, k), Request("getExpenses", None))
    /\ UNCHANGED <<lsTrips, idbTrips, last, dashVars, wizardVars, lookupVars,
                   call, scanVars, reportVars, latestLookup, isSaving>>

\* getExpenses' request reads the index.
getExpenses_reads ==
  \E k \in Served(pending) :
    /\ pending[k].op = "getExpenses"
    /\ ~pending[k].read
    /\ pending' = [pending EXCEPT ![k].data = getExpenses(route),
                                  ![k].read = TRUE]
    /\ UNCHANGED <<storeVars, last, dashVars, wizardVars, lookupVars, call,
                   scanVars, reportVars, latestLookup, isSaving>>

\* getExpenses resolves: setExpenses(data).  The history tells whether a
\* refresh was ever handed its result while another call was in flight.
refreshExpenses_resolved ==
  \E k \in Served(pending) :
    /\ pending[k].op = "getExpenses"
    /\ pending[k].read
    /\ expenses' = pending[k].data
    /\ pending' = Settled(pending, k)
    /\ last' = [op |-> "getExpenses",
                overlapped |-> \/ Len(pending) > 1
                               \/ IF last.op = "none" THEN FALSE
                                  ELSE last.overlapped]
    /\ UNCHANGED <<storeVars, backend, route, trip, showModal,
                   editingExpense, showCloseConfirm, formData, wizardVars,
                   lookupVars, call, scanVars, reportVars, latestLookup,
                   isSaving>>

NextInFlight ==
  \/ \E id \in InFlightExpenseIds : ClickAdd(id)
  \/ \E i \in 1..Len(expenses) : ClickExpense(i)
  \/ onClose
  \/ \E a \in AmountValues \ {0} : handleSaveExpense_called(a)
  \/ handleDelete_called
  \/ saveExpense_completes
  \/ deleteExpense_completes
  \/ getExpenses_reads
  \/ refreshExpenses_resolved

SpecInFlight == InitInFlight /\ [][NextInFlight]_vars

\* ------------------------------------------ the wizard, save in flight
\* One mounted TripWizard whose submit is followed from handleSubmit to the
\* settling of saveTrip.  formData has no tripName until one is typed.

\* Texts of the trip-name input: cleared, or a name.
TripNames == {"", "Tokyo"}

\* formData.tripName is truthy.
HasTripName(fd) == "tripName" \in DOMAIN fd /\ fd.tripName # ""

\* A submit button that is never disabled.
SubmitEnabled_always == TRUE

\* The submit button: disabled={isSaving}.
SubmitEnabled == ~isSaving

\* The trip-name input: handleChange('tripName', name).
handleChange_tripName(name) ==
  /\ wizard # None
  /\ wizard' = [f \in DOMAIN wizard \cup {"tripName"} |->
                  IF f = "tripName" THEN name ELSE wizard[f]]
  /\ wizard' # wizard
  /\ UNCHANGED <<storeVars, last, dashVars, exchangeRate, isManualRate,
                 currencyLookups, lookupVars, serviceVars>>

\* The form is submitted (the start-date input is required): handleSubmit up
\* to its await, which is nothing when formData.tripName is falsy.
TripWizard_handleSubmit_called ==
  /\ wizard # None
  /\ SubmitEnabled
  /\ wizard.startDate # ""
  /\ Len(pending) < MaxInFlight
  /\ IF HasTripName(wizard)
     THEN /\ isSaving' = TRUE
          /\ pending' = Append(pending,
                               Request("saveTrip", SubmittedTrip(wizard)))
     ELSE UNCHANGED <<pending, isSaving>>
  /\ UNCHANGED <<storeVars, last, dashVars, wizardVars, lookupVars, call,
                 scanVars, reportVars, latestLookup>>

\* saveTrip resolves: navigate to the dashboard of the trip, whose loadData
\* sets trip and expenses; the wizard unmounts.
TripWizard_handleSubmit_resolved ==
  /\ pending # <<>>
  /\ pending[1].op = "saveTrip"
  /\ saveTrip(pending[1].expense)
  /\ pending' = Tail(pending)
  /\ route' = pending[1].expense.id
  /\ trip' = (IF backend = "localStorage" THEN JsonTrip(pending[1].expense)
              ELSE pending[1].expense)
  /\ expenses' = getExpenses(pending[1].expense.id)
  /\ WizardUnmounts
  /\ isSaving' = FALSE
  /\ UNCHANGED <<lsExpenses, idbExpenses, last, backend, showModal,
                 editingExpense, showCloseConfirm, formData, call, scanVars,
                 reportVars, latestLookup>>

\* saveTrip rejects: console.error, alert, setIsSaving(false).
TripWizard_handleSubmit_caught ==
  /\ pending # <<>>
  /\ pending[1].op = "saveTrip"
  /\ pending' = Tail(pending)
  /\ failed' = Rejected("saveTrip", "TripWizard.handleSubmit", TRUE,
                        FailedToCreateTrip)
  /\ alertShown' = FailedToCreateTrip
  /\ isSaving' = FALSE
  /\ UNCHANGED <<storeVars, last, dashVars, wizardVars, lookupVars, call,
                 scanVars, latestLookup>>

NextTripSubmit ==
  \/ \E d \in Dates : handleChange_startDate(d)
  \/ \E c \in Currencies : handleChange_baseCurrency(c)
  \/ \E name \in TripNames : handleChange_tripName(name)
  \/ TripWizard_handleSubmit_called
  \/ TripWizard_handleSubmit_resolved
  \/ TripWizard_handleSubmit_caught

SpecTripSubmit == InitTripForm /\ [][NextTripSubmit]_vars

\* --------------------------------------------------------- rate editor
\* The dashboard with the rate editor of its header.

NextRateEditor ==
  \/ Next
  \/ \E r \in RateValues : handleSaveRate(r)

SpecRateEditor == InitApp /\ [][NextRateEditor]_vars

\* ---------------------------------------------------------- C9, C10

\* The record of identifier id in a read result, or the empty sequence.
RecordOf(read, id) == SelectSeq(read, LAMBDA r : r.id = id)

\* C9: for both storage services, a Trip or Expense just saved is re-read
\* (getTrips / getExpenses(tripId)) equal in all fields to what was saved, and
\* saving the same record a second time leaves the store as it is.
C9_RoundTrip ==
  /\ last.op = "saveExpense" =>
       /\ RecordOf(ls_getExpenses(lsExpenses, last.expense.tripId),
                   last.expense.id) = <<last.expense>>
       /\ RecordOf(idb_getExpenses(idbExpenses, last.expense.tripId),
                   last.expense.id) = <<last.expense>>
       /\ ls_saveExpense(lsExpenses, last.expense) = lsExpenses
       /\ idb_saveExpense(idbExpenses, last.expense) = idbExpenses
  /\ last.op = "saveTrip" =>
       /\ RecordOf(ls_getTrips(lsTrips), last.trip.id) = <<last.trip>>
       /\ RecordOf(idb_getTrips(idbTrips), last.trip.id) = <<last.trip>>
       /\ ls_saveTrip(lsTrips, last.trip) = lsTrips
       /\ idb_saveTrip(idbTrips, last.trip) = idbTrips

Ids(all) == {all[i].id : i \in 1..Len(all)}

UniqueIds(all) == \A i, j \in 1..Len(all) : all[i].id = all[j].id => i = j

\* A save of identifier id replaced the record in place.
ReplacedInPlace(old, new, id) ==
  /\ Len(new) = Len(old)
  /\ \A i \in 1..Len(old) :
       IF old[i].id = id THEN new[i].id = id ELSE new[i] = old[i]

\* A save of identifier id put the record after all the others.
AppendedLast(old, new, id) ==
  /\ Len(new) = Len(old) + 1
  /\ SubSeq(new, 1, Len(old)) = old
  /\ new[Len(new)].id = id

\* A save of identifier id added exactly one record and kept the others in
\* their order.
AddedOne(old, new, id) ==
  /\ Len(new) = Len(old) + 1
  /\ Len(RecordOf(new, id)) = 1
  /\ SelectSeq(new, LAMBDA r : r.id # id) = old

allExpenses == IF backend = "localStorage" THEN lsExpenses ELSE idbExpenses

\* C1: every stored expense has amountBase = amountOriginal * exchangeRate,
\* for the amountOriginal and exchangeRate stored in the same record.
C1_AmountBaseIsProduct ==
  \A i \in 1..Len(allExpenses) :
    allExpenses[i].amountBase =
      Mul(allExpenses[i].amountOriginal, allExpenses[i].exchangeRate)

\* A product (thousandths) rounded half up to whole cents.
RoundMoney(x) ==
  IF x = NaN THEN NaN
  ELSE IF x >= 0 THEN ((2 * x + RateOne) \div (2 * RateOne)) * RateOne
  ELSE 0 - ((2 * (0 - x) + RateOne) \div (2 * RateOne)) * RateOne

\* C2: every stored expense has amountBase = amountOriginal * exchangeRate
\* rounded to money precision (whole cents).
C2_AmountBaseIsRounded ==
  \A i \in 1..Len(allExpenses) :
    allExpenses[i].amountBase =
      RoundMoney(Mul(allExpenses[i].amountOriginal,
                     allExpenses[i].exchangeRate))

\* The settlement label the sign of the balance calls for.
SettlementLabel ==
  IF balance > 0 THEN "toReturn"
  ELSE IF balance < 0 THEN "toReimburse" ELSE "balanced"

\* C4: wherever the dashboard shows a settlement label (the close-trip
\* dialog, the print header, the print table, which is rendered when there
\* are expenses), it is "to return" exactly when balance > 0, "to reimburse"
\* exactly when balance < 0 and "balanced" exactly when balance = 0.
C4_SettlementLabels ==
  route # 0 =>
    /\ PrintHeaderLabel = SettlementLabel
    /\ Len(expenses) > 0 => PrintTableLabel = SettlementLabel
    /\ (showCloseConfirm /\ trip.status = "active") =>
         CloseConfirmLabel = SettlementLabel

\* ------------------------------------------------------------------- C3

\* The sum of amountBase over the records of all at the indices in I.
RECURSIVE SumBase(_, _)
SumBase(all, I) ==
  IF I = {} THEN 0
  ELSE LET i == CHOOSE i \in I : TRUE
       IN all[i].amountBase + SumBase(all, I \ {i})

\* The stored expenses of trip t, by index.
OfTrip(all, t) == {i \in 1..Len(all) : all[i].tripId = t}

\* The trip of the stored expense id (0 when it is not stored).
TripOfExpense(all, id) ==
  IF \E i \in 1..Len(all) : all[i].id = id
  THEN all[CHOOSE i \in 1..Len(all) : all[i].id = id].tripId
  ELSE 0

\* The trip the call recorded in l writes an expense of (0: none).
TouchedTrip(l, all) ==
  IF l.op = "saveExpense" THEN l.expense.tripId
  ELSE IF l.op = "deleteExpense" THEN TripOfExpense(all, l.expenseId)
  ELSE 0

\* C3: for every trip and both storage services, totalSpent over
\* getExpenses(tripId) is the sum of amountBase over exactly the stored
\* expenses of that trip, and a save, edit or delete of an expense of
\* another trip leaves it unchanged.
C3_TotalSpent ==
  /\ [](\A t \in StoreTripIds :
          /\ Reduce(ls_getExpenses(lsExpenses, t))
               = SumBase(lsExpenses, OfTrip(lsExpenses, t))
          /\ Reduce(idb_getExpenses(idbExpenses, t))
               = SumBase(idbExpenses, OfTrip(idbExpenses, t)))
  /\ [][\A t \in StoreTripIds :
          TouchedTrip(last', idbExpenses) # t =>
            /\ Reduce(ls_getExpenses(lsExpenses', t))
                 = Reduce(ls_getExpenses(lsExpenses, t))
            /\ Reduce(idb_getExpenses(idbExpenses', t))
                 = Reduce(idb_getExpenses(idbExpenses, t))]_vars

\* Trip 1 has an expense stored and an expense of trip 2 was just saved.
C3_Witness ==
  /\ last.op = "saveExpense"
  /\ last.expense.tripId = 2
  /\ Reduce(ls_getExpenses(lsExpenses, 1)) > 0
  /\ Reduce(idb_getExpenses(idbExpenses, 1)) > 0
  /\ Len(idb_getExpenses(idbExpenses, 2)) = 1

\* ------------------------------------------------------- C5, C6, C7, C8

\* A step of the mounted wizard changes its start date.
StartDateChanges ==
  wizard # None /\ wizard' # None /\ wizard'.startDate # wizard.startDate

\* C5: in the trip wizard, once the user has entered the rate, a change of
\* the start date starts no rate lookup and leaves exchangeRate and
\* initialExchangeRate as they are (where base and local currency are the
\* same it sets both to 1, the rate of a currency to itself, which is not a
\* fetched value); and a rate entered with no lookup in flight stays in both
\* for as long as the currency pair does not change, whatever the start
\* date becomes.
C5_DateChangeKeepsManualRate ==
  /\ [][(StartDateChanges /\ isManualRate) =>
          /\ rateLookups' = rateLookups
          /\ IF wizard.baseCurrency = wizard.localCurrencySuggestion
             THEN /\ exchangeRate' = RateOne
                  /\ wizard'.initialExchangeRate = RateOne
             ELSE /\ exchangeRate' = exchangeRate
                  /\ wizard'.initialExchangeRate
                       = wizard.initialExchangeRate]_vars
  /\ []((wizard # None /\ manualEntry # <<>> /\ manualEntry[1].clean) =>
          /\ exchangeRate = manualEntry[1].rate
          /\ wizard.initialExchangeRate = manualEntry[1].rate)

\* The user entered a rate with no lookup in flight and changed the start
\* date afterwards: the rate is the entered one and no lookup is awaited.
C5_Witness ==
  /\ wizard # None
  /\ isManualRate
  /\ manualEntry # <<>>
  /\ manualEntry[1].clean
  /\ manualEntry[1].date # wizard.startDate
  /\ manualEntry[1].rate \in TypedRates
  /\ exchangeRate = manualEntry[1].rate
  /\ wizard.initialExchangeRate = manualEntry[1].rate
  /\ rateLookups = 0

\* C6: in the expense form, after the user has typed a rate (with no lookup
\* in flight) and changed nothing but the date since, the form's
\* exchangeRate, which is the one saved, is the typed rate.
C6_DateChangeKeepsTypedRate ==
  (showModal /\ manualEntry # <<>> /\ manualEntry[1].clean) =>
    formData.exchangeRate = manualEntry[1].rate

\* C7: in the trip wizard, after the user has entered a rate while a rate
\* lookup was in flight, and for as long as the currency pair has not
\* changed since, exchangeRate and initialExchangeRate hold the entered rate.
C7_LookupKeepsManualRate ==
  (wizard # None /\ manualEntry # <<>> /\ ~manualEntry[1].clean) =>
    /\ exchangeRate = manualEntry[1].rate
    /\ wizard.initialExchangeRate = manualEntry[1].rate

\* C8: a wizard session starts with isManualRate false (auto), isManualRate
\* is true once the user has entered a rate, and no step of the session
\* (date, country or currency change, lookup result) takes it from true
\* back to false.
C8_ManualIsSticky ==
  /\ ~isManualRate
  /\ []((wizard # None /\ manualEntry # <<>>) => isManualRate)
  /\ [][(isManualRate /\ wizard' # None) => isManualRate']_vars

\* The session is manual and the currency pair and the start date have
\* changed since the rate was entered.
C8_Witness ==
  /\ wizard # None
  /\ isManualRate
  /\ manualEntry = <<>>
  /\ wizard.startDate # ""
  /\ wizard.baseCurrency # "USD"

\* ------------------------------------------------------------------ C11

\* C11: in both storage services, after deleteExpense(id) no getExpenses
\* result holds the expense id; the call leaves every other stored expense,
\* in its place, and every trip as they were, so getExpenses and the total
\* of a trip other than the deleted expense's are unchanged.
C11_DeleteFrame ==
  /\ [](last.op = "deleteExpense" =>
          \A t \in StoreTripIds :
            /\ last.expenseId \notin Ids(ls_getExpenses(lsExpenses, t))
            /\ last.expenseId \notin Ids(idb_getExpenses(idbExpenses, t)))
  /\ [][last'.op = "deleteExpense" =>
          /\ lsExpenses'
               = SelectSeq(lsExpenses, LAMBDA e : e.id # last'.expenseId)
          /\ idbExpenses'
               = SelectSeq(idbExpenses, LAMBDA e : e.id # last'.expenseId)
          /\ lsTrips' = lsTrips
          /\ idbTrips' = idbTrips
          /\ \A t \in StoreTripIds :
               TripOfExpense(idbExpenses, last'.expenseId) # t =>
                 /\ ls_getExpenses(lsExpenses', t)
                      = ls_getExpenses(lsExpenses, t)
                 /\ idb_getExpenses(idbExpenses', t)
                      = idb_getExpenses(idbExpenses, t)]_vars

\* A stored expense was deleted while another expense and a trip were
\* stored: the other expense and the trip are still there.
C11_Witness ==
  /\ last.op = "deleteExpense"
  /\ last.stored
  /\ Len(lsExpenses) = 1
  /\ Len(idbExpenses) = 1
  /\ Len(lsTrips) >= 1
  /\ Len(idbTrips) >= 1

\* ------------------------------------------------------------------ C12

\* C12: after every sequence of calls applied to both storage services from
\* empty stores, getTrips returns the same records in both, getExpenses
\* returns the same records in both for every trip, and the save just made
\* returned the same value in both.
C12_SameResults ==
  /\ ls_getTrips(lsTrips) = idb_getTrips(idbTrips)
  /\ \A t \in StoreTripIds :
       ls_getExpenses(lsExpenses, t) = idb_getExpenses(idbExpenses, t)
  /\ last.op = "saveTrip" =>
       ls_saveTrip_result(last.trip) = idb_saveTrip_result(last.trip)
  /\ last.op = "saveExpense" =>
       ls_saveExpense_result(last.expense)
         = idb_saveExpense_result(last.expense)

\* --------------------------------------------------------- C13 .. C17

\* The call has settled.
Finished == call.phase \in {"resolved", "rejected"}

\* The last invocation of the call's operation.
LastAttempt == call.attempts[Len(call.attempts)]

\* What generateContent settled to is a transient overload of the model.
Overload(remote) == ~remote.ok /\ isOverloaded(remote.error)

\* C13: a settled getEstimatedExchangeRate call whose last remote lookup
\* failed has resolved to 1.0.
C13_FailureResolvesToOne ==
  (/\ call.fn = "getEstimatedExchangeRate"
   /\ Finished
   /\ call.attempts # <<>>
   /\ ~LastAttempt.remote.ok) =>
    /\ call.phase = "resolved"
    /\ call.result.value = ServiceRateOne

\* A positive number.
Positive(v) == v \notin {NaN, Null, NonNumeric} /\ v > 0

\* C14: every value getEstimatedExchangeRate resolves to is a positive number.
C14_RateIsPositive ==
  (call.fn = "getEstimatedExchangeRate" /\ call.phase = "resolved") =>
    Positive(call.result.value)

\* C15: retryOperation invokes the operation at most 4 times, only after a
\* transient-overload error of the invocation before, having waited 2000,
\* then 4000, then 8000 ms; it settles to the result of its last invocation,
\* which is the first success or the last error, and it always settles.
C15_BoundedBackoff ==
  /\ [](call.fn # "none" =>
          /\ Len(call.attempts) <= 4
          /\ call.waits = SubSeq(<<2000, 4000, 8000>>, 1, Len(call.waits))
          /\ Len(call.waits)
               = (IF Finished /\ call.attempts # <<>>
                  THEN Len(call.attempts) - 1 ELSE Len(call.attempts))
          /\ \A i \in 1..Len(call.waits) :
               /\ ~call.attempts[i].result.ok
               /\ isOverloaded(call.attempts[i].result.error)
          /\ (Finished /\ call.attempts # <<>>) =>
               /\ call.result = LastAttempt.result
               /\ call.phase = "resolved" <=> LastAttempt.result.ok
               /\ \A i \in 1..(Len(call.attempts) - 1) :
                    ~call.attempts[i].result.ok)
  /\ (call.fn # "none") ~> (call.fn # "none" /\ Finished)

C15_Witness ==
  /\ call.fn # "none"
  /\ call.phase = "rejected"
  /\ Len(call.attempts) = 4
  /\ call.waits = <<2000, 4000, 8000>>

\* Why an invocation of analyzeReceipt's operation failed, by what the call
\* was given and what generateContent settled to.
MissingCredential(attempt) == ~call.key

InvalidPayload(attempt) ==
  call.key /\ attempt.remote.ok /\ attempt.remote.value.kind = "invalid"

QuotaExhausted(attempt) ==
  call.key /\ ~attempt.remote.ok /\ attempt.remote.error.status = 429

\* The error analyzeReceipt rejects with for such a failure, else <<>>.
SpecificError(attempt) ==
  IF MissingCredential(attempt) THEN KeyMissing
  ELSE IF InvalidPayload(attempt) THEN NotValidJson
  ELSE IF QuotaExhausted(attempt) THEN QuotaExceeded
  ELSE <<>>

\* C16, as stated: an analyzeReceipt call with an invocation that failed for
\* a missing credential, an invalid payload or an exhausted quota made
\* exactly one invocation and rejected with the error of that failure; every
\* invocation that was followed by another met a transient overload.
C16_ExactlyOneAttempt ==
  call.fn = "analyzeReceipt" =>
    /\ \A i \in 1..Len(call.attempts) :
         SpecificError(call.attempts[i]) # <<>> =>
           /\ Len(call.attempts) = 1
           /\ call.phase = "rejected"
           /\ call.result.error.message = SpecificError(call.attempts[i])
    /\ \A i \in 1..(Len(call.attempts) - 1) : Overload(call.attempts[i].remote)

\* C16, amended: an invocation that failed for a missing credential, an
\* invalid payload or an exhausted quota is the last one of its call, which
\* rejected with the error of that failure; it is the only one unless the
\* invocations before it met a transient overload, and every invocation that
\* was followed by another met a transient overload.
C16_SpecificErrorsNotRetried ==
  call.fn = "analyzeReceipt" =>
    /\ \A i \in 1..Len(call.attempts) :
         SpecificError(call.attempts[i]) # <<>> =>
           /\ i = Len(call.attempts)
           /\ call.phase = "rejected"
           /\ call.result.error.message = SpecificError(call.attempts[i])
           /\ (i = 1 \/ \A j \in 1..(i - 1) : Overload(call.attempts[j].remote))
    /\ \A i \in 1..(Len(call.attempts) - 1) : Overload(call.attempts[i].remote)

C16_Witness ==
  /\ call.fn = "analyzeReceipt"
  /\ call.phase = "rejected"
  /\ Len(call.attempts) = 2
  /\ Overload(call.attempts[1].remote)
  /\ QuotaExhausted(LastAttempt)
  /\ call.result.error.message = QuotaExceeded

\* The two strings are equal up to the case of their letters.
SameIgnoringCase(a, b) == ToUpperCase(a) = ToUpperCase(b)

\* C17: the category of a resolved analyzeReceipt call is one of the seven
\* enum values: the one equal to the answered category up to case, and
\* Other when there is none or no category was answered.
C17_CategoryInEnum ==
  (call.fn = "analyzeReceipt" /\ call.phase = "resolved") =>
    LET data == LastAttempt.remote.value
        category == call.result.value.category
    IN /\ \E i \in 1..Len(ExpenseCategory) : category = ExpenseCategory[i]
       /\ IF "category" \in DOMAIN data
               /\ \E i \in 1..Len(ExpenseCategory) :
                    SameIgnoringCase(ExpenseCategory[i], data.category)
          THEN SameIgnoringCase(category, data.category)
          ELSE category = "Other"

C17_Witness ==
  /\ call.fn = "analyzeReceipt"
  /\ call.phase = "resolved"
  /\ LastAttempt.remote.value = [kind |-> "json", category |-> "flight"]
  /\ call.result.value.category = "Flight"

\* ------------------------------------------------------------------ C18

\* C18: after a receipt scan of the mounted expense form has ended with an
\* error, an alert has been shown, the scan has set no field of the form,
\* the form is not scanning and it is still mounted with its save button.
C18_ScanErrorKeepsForm ==
  (showModal /\ scan.phase = "failed") =>
    /\ alertShown # <<>>
    /\ ~scan.applied
    /\ ~isScanning
    /\ ENABLED ExpenseForm_submit

\* ------------------------------------------------------------------ C19

\* C19: the caller of a storage call that rejected has logged the error and
\* has shown a try-again message.
C19_FailureLoggedAndShown ==
  failed.op # "none" => failed.logged /\ failed.alerted # <<>>

\* ------------------------------------------------------------------ C20

\* The stored status of the trip id, as getTrips returns it.
StoredStatus(trips, id) == RecordOf(trips, id)[1].status

\* C20: every stored trip has status active or closed; a trip that enters
\* the store enters it active; the confirm button of the close/reopen dialog
\* changes the stored status of the dashboard's trip to the other value and
\* the dashboard shows it; and the other value of the other value of a
\* trip's status is that status, so a second toggle restores it.
C20_StatusToggles ==
  /\ [](\A i \in 1..Len(getTrips) : getTrips[i].status \in {"active", "closed"})
  /\ [][\A i \in 1..Len(getTrips') :
          getTrips'[i].id \notin Ids(getTrips) => getTrips'[i].status = "active"]_vars
  /\ [][handleToggleTripStatus =>
          /\ StoredStatus(getTrips', trip.id) # StoredStatus(getTrips, trip.id)
          /\ StoredStatus(getTrips', trip.id) \in {"active", "closed"}
          /\ trip'.status = StoredStatus(getTrips', trip.id)]_vars
  /\ [](\A i \in 1..Len(getTrips) :
          newStatus(newStatus(getTrips[i].status)) = getTrips[i].status)

\* A closed trip has been reopened or an active one closed: the dashboard
\* shows a closed trip, stored as closed, with the dialog dismissed.
C20_Witness ==
  /\ trip # None
  /\ trip.status = "closed"
  /\ StoredStatus(getTrips, trip.id) = "closed"
  /\ ~showCloseConfirm

\* ------------------------------------------------------------- C21, C22

\* The stored trips of the linked storage service, after the step.
allTripsAfter == IF backend = "localStorage" THEN lsTrips' ELSE idbTrips'

C22_NoOrphans ==
  /\ [][Ids(getTrips) \subseteq Ids(allTripsAfter)]_vars
  /\ [](\A i \in 1..Len(allExpenses) :
          allExpenses[i].tripId \in Ids(getTrips))

\* An expense is stored for a trip that has been closed since it was created.
C22_Witness ==
  /\ Len(allExpenses) >= 1
  /\ \E i \in 1..Len(getTrips) :
       /\ getTrips[i].id = allExpenses[1].tripId
       /\ getTrips[i].status = "closed"

\* ------------------------------------------------------------- C23, C26

\* C23: on the dashboard of every trip the local-currency balance shown is
\* balance * trip.initialExchangeRate.
C23_BalanceLocal ==
  trip # None => balanceLocal = Mul(balance, trip.initialExchangeRate)

\* C26: a step of the dashboard leaves every field but the status of a
\* stored trip whose status is closed as it was.
C26_ClosedTripIsFrozen ==
  [][\A i \in 1..Len(getTrips) :
       getTrips[i].status = "closed" =>
         \E j \in 1..Len(allTripsAfter) :
           [allTripsAfter[j] EXCEPT !.status = "closed"] = getTrips[i]]_vars

\* ------------------------------------------------------------------ C24

\* The sum of the values of the chart's entries.
RECURSIVE SumValues(_)
SumValues(entries) ==
  IF entries = <<>> THEN 0
  ELSE entries[1].value + SumValues(SubSeq(entries, 2, Len(entries)))

\* C24: chartData has exactly one entry for every category of a listed
\* expense and none for another category, the value of an entry is the sum
\* of amountBase over the listed expenses of its category, and the values
\* sum to totalSpent.
C24_CategoryBreakdown ==
  LET entries == chartData(expenses)
  IN /\ \A i, j \in 1..Len(entries) : entries[i].name = entries[j].name => i = j
     /\ {entries[i].name : i \in 1..Len(entries)}
          = {expenses[i].category : i \in 1..Len(expenses)}
     /\ \A i \in 1..Len(entries) :
          entries[i].value
            = SumBase(expenses, {k \in 1..Len(expenses) :
                                   expenses[k].category = entries[i].name})
     /\ SumValues(entries) = totalSpent

\* Three expenses are listed, two of them of one category with a base
\* amount each, and the chart has two entries.
C24_Witness ==
  /\ Len(expenses) = 3
  /\ expenses[1].category = expenses[3].category
  /\ expenses[1].category # expenses[2].category
  /\ expenses[1].amountBase > 0
  /\ expenses[3].amountBase > 0
  /\ Len(chartData(expenses)) = 2

\* ------------------------------------------------------------------ C25

\* The stored expenses of trip tripId, in stored order.
StoredExpensesOf(all, tripId) ==
  LET I == {i \in 1..Len(all) : all[i].tripId = tripId}
  IN {<<i, all[i]>> : i \in I}

\* C25: a step taken while a trip is stored as closed leaves the stored
\* expenses of that trip as they were: none is added, changed or removed.
C25_ClosedTripKeepsExpenses ==
  [][\A i \in 1..Len(getTrips) :
       getTrips[i].status = "closed" =>
         {x[2] : x \in StoredExpensesOf(allExpensesAfter, getTrips[i].id)}
           = {x[2] : x \in StoredExpensesOf(allExpenses, getTrips[i].id)}]_vars

\* The dashboard shows a trip that was closed after an expense was stored
\* for it through the form.
C25_Witness ==
  /\ route # 0
  /\ trip # None
  /\ trip.status = "closed"
  /\ StoredStatus(getTrips, trip.id) = "closed"
  /\ StoredExpensesOf(allExpenses, trip.id) # {}
  /\ Len(expenses) >= 1
  /\ Uncovered

\* ------------------------------------------------------------------ C27

\* Every updateRate call of the mounted expense form has completed, the last
\* one with a rate, and no rate was typed since.
LookupsCompleted ==
  /\ showModal
  /\ rateLookups = 0
  /\ latestLookup.state \in {"resolved", "local"}

\* C27: once every rate lookup of the expense form has completed, the form's
\* exchangeRate is the rate obtained for the currency and date of the last
\* updateRate call, in whatever order the responses arrived.
C27_LatestLookupWins ==
  LookupsCompleted => formData.exchangeRate = latestLookup.rate

\* ------------------------------------------------------------------ C28

\* C28: a loading flag a form's lookup has set is cleared again: whenever
\* loadingRate is true, it is false at some later time, also when the lookup
\* rejects.
C28_LoadingClears == loadingRate ~> ~loadingRate

\* ------------------------------------------------------------------ C29

\* C29: once no storage call of the dashboard is in flight, the displayed
\* expenses are the stored expenses of the trip, and so are totalSpent and
\* balance; and whenever a refresh changes the displayed expenses, it sets
\* them to the expenses stored at that time, never to an older list.
C29_DisplayedIsStored ==
  /\ [](pending = <<>> =>
          /\ expenses = getExpenses(route)
          /\ totalSpent = Reduce(getExpenses(route))
          /\ balance = OrDefault(trip.advanceAmount, 0) * RateOne
                        - Reduce(getExpenses(route)))
  /\ [][expenses' # expenses =>
          expenses' = SelectSeq(allExpensesAfter,
                                LAMBDA e : e.tripId = route)]_vars

\* Every call has completed, a refresh was handed its result while a later
\* call was in flight, and an expense is stored and displayed.
C29_Witness ==
  /\ pending = <<>>
  /\ last.op = "getExpenses"
  /\ last.overlapped
  /\ Len(expenses) >= 1
  /\ expenses = getExpenses(route)

\* ------------------------------------------------------------------ C30

\* The trips the step stores or changes.
TripsWritten ==
  {allTripsAfter[i] : i \in 1..Len(allTripsAfter)}
    \ {getTrips[i] : i \in 1..Len(getTrips)}

\* C30: a mounted trip form keeps its identifier; at most one saveTrip call
\* of the form is in flight, and only while isSaving is set; a step stores
\* at most one trip, which has the form's identifier and a trip name; and
\* the store never holds more than the one trip of the form, whatever the
\* number of submits and of failed saves before.
C30_OneTripPerSession ==
  /\ [](Len(pending) <= 1 /\ (pending # <<>> => isSaving))
  /\ [](Len(getTrips) <= 1)
  /\ [][(wizard # None /\ wizard' # None) => wizard'.id = wizard.id]_vars
  /\ [][\A t \in TripsWritten :
          /\ wizard # None
          /\ t.id = wizard.id
          /\ HasTripName(t)
          /\ Len(allTripsAfter) = 1]_vars

\* The form's trip is stored by a resubmit, after a save of the same form
\* was rejected.
C30_Witness ==
  /\ wizard = None
  /\ failed.op = "saveTrip"
  /\ Len(getTrips) = 1
  /\ route = getTrips[1].id
  /\ HasTripName(getTrips[1])
  /\ pending = <<>>

=============================================================================
